---- MODULE Spec2Model ----
(***************************************************************************)
(* RGBMatrixEditor (ui/src/rgbmatrixeditor.cpp): the editor's slots as a   *)
(* state machine over the Doc, the RGBMatrix being edited, the widgets the *)
(* slots read and write, and the playback side that shares the matrix's    *)
(* algorithm mutex.                                                        *)
(*                                                                         *)
(* The editor runs on the UI thread: one slot at a time.  A slot is an     *)
(* action taken when the thread is idle (todo = <<>>); what the slot calls *)
(* after its own assignments (a QMutexLocker scope, updateExtraOptions,    *)
(* slotRestartTest, the steps of the export) is queued in todo and run,    *)
(* in order, before any other slot can start.  Only the playback thread    *)
(* interleaves with a slot in progress.                                    *)
(***************************************************************************)
EXTENDS Integers, Sequences, FiniteSets, TLC

VARIABLES
    docMode,        \* Doc::mode(): "Design" or "Operate"
    docGroups,      \* ids of the fixture groups in the Doc
    headsMap,       \* FixtureGroup::headsMap() of every group id
    docFunctions,   \* functions registered in the Doc, in order of addFunction
    fixtureGroup,   \* m_matrix->fixtureGroup()
    algorithm,      \* m_matrix->algorithm() (type "None" is NULL)
    runOrder,       \* m_matrix->runOrder()
    direction,      \* m_matrix->direction()
    running,        \* the matrix was started and not yet stopped
    mutexHolder,    \* owner of m_matrix->algorithmMutex()
    testChecked,    \* m_testButton->isChecked()
    testEnabled,    \* m_testButton->isEnabled()
    timerActive,    \* m_previewTimer->isActive()
    comboItems,     \* m_fixtureGroupCombo: the item data, in order
    comboIndex,     \* m_fixtureGroupCombo->currentIndex()
    xOffsetSpin,    \* m_xOffsetSpin->value()
    yOffsetSpin,    \* m_yOffsetSpin->value()
    m_map,          \* m_previewHandler->m_map
    todo,           \* what is left to run of the slot in progress
    exp,            \* locals of slotSaveToSequenceClicked while it runs
    textGroup,      \* m_textGroup is shown
    imageGroup,     \* m_imageGroup is shown
    offsetGroup,    \* m_offsetGroup is shown
    propertiesGroup, \* m_propertiesGroup is shown
    m_startColor,   \* m_matrix->startColor()
    m_endColor,     \* m_matrix->endColor()
    blendMode,      \* m_matrix->blendMode(), and m_blendModeCombo's index
    controlMode,    \* m_matrix->controlMode(), and m_colorModeCombo's index
    startColorButtonEnabled, \* m_startColorButton->isEnabled()
    duration,       \* m_matrix->duration()
    tick,           \* MasterTimer::tick()
    m_previewIterator, \* time accumulated by the preview timer
    accumulated,    \* m_previewIterator as the timeout in progress first raised it
    advanced,       \* checkNextStep calls of the timeout in progress (or the last)
    fadeInSpeed,    \* m_matrix->fadeInSpeed()
    currentStepIndex, \* m_previewHandler->currentStepIndex()
    calls,          \* start / stopAndWait calls on the matrix in the last step
    dimmerControl,  \* m_matrix->dimmerControl()
    dimmerControlCb, \* m_dimmerControlCb->isChecked()
    dimmerControlCbEnabled, \* m_dimmerControlCb->isEnabled()
    intensityGroup, \* m_intensityGroup is shown
    speedDialButton, \* m_speedDialButton->isChecked()
    m_speedDials,   \* the speed dial widget (open is FALSE for NULL)
    offsetsBefore   \* the offsets the updateExtraOptions call in progress found

optionVars == <<textGroup, imageGroup, offsetGroup, propertiesGroup>>
colorVars == <<m_startColor, m_endColor, blendMode, controlMode, startColorButtonEnabled>>
timeoutVars == <<duration, tick, m_previewIterator, accumulated, advanced, fadeInSpeed>>
dimmerVars == <<dimmerControl, dimmerControlCb, dimmerControlCbEnabled, intensityGroup>>
dialVars == <<speedDialButton, m_speedDials>>

vars == <<docMode, docGroups, headsMap, docFunctions, fixtureGroup, algorithm,
          runOrder, direction, running, mutexHolder, testChecked, testEnabled,
          timerActive, comboItems, comboIndex, xOffsetSpin, yOffsetSpin,
          m_map, todo, exp, optionVars, colorVars, timeoutVars,
          currentStepIndex, calls, dimmerVars, dialVars, offsetsBefore>>

(***************************************************************************)
(* Bounds                                                                  *)
(***************************************************************************)
MaxGroups == 2      \* fixture group ids are 0 .. MaxGroups-1
MaxSteps == 3       \* an algorithm has 1 .. MaxSteps steps
MaxValue == 1       \* texts, fonts, styles, file names, offsets: 0 .. MaxValue
MaxHeads == 2       \* heads placed in a grid layout
MaxExports == 1     \* exports to a sequence in one run
MaxProperties == 1  \* a script has 0 .. MaxProperties properties
MaxDuration == 5    \* the matrix's duration is 0 .. MaxDuration
MaxTick == 2        \* MasterTimer::tick() is 1 .. MaxTick

GroupIds == 0 .. (MaxGroups - 1)
Values == 0 .. MaxValue

(***************************************************************************)
(* Collaborator constants                                                  *)
(***************************************************************************)
\* The invalid ids are UINT_MAX in the program; the model takes the largest
\* integer TLC holds, which no id in use reaches either.
InvalidId == 2147483647     \* FixtureGroup::invalidId(), Fixture::invalidId()
NoData == -1                \* an invalid QVariant: the "None" item has no data
InvalidChannel == 2147483647 \* QLCChannel::invalid()
MatrixId == 0               \* the id of the edited matrix in the Doc

Max(a, b) == IF a >= b THEN a ELSE b

(***************************************************************************)
(* Fixtures of the Doc.  Fixture 0 has two RGB heads, fixture 1 one RGB    *)
(* head behind a master dimmer, fixture 2 is a plain dimmer (no RGB), and  *)
(* fixture 3 is patched in groups but missing from the Doc.                *)
(***************************************************************************)
DocFixtures == {0, 1, 2}

rgbChannels(fxi, head) ==
    CASE fxi = 0 /\ head = 0 -> <<0, 1, 2>>
      [] fxi = 0 /\ head = 1 -> <<3, 4, 5>>
      [] fxi = 1 -> <<1, 2, 3>>
      [] OTHER -> <<>>

masterChannel(fxi, head) ==
    CASE fxi = 1 -> 0
      [] fxi = 2 -> 0
      [] OTHER -> InvalidChannel

GroupHead(f, h) == [fxi |-> f, head |-> h]
InvalidHead == GroupHead(InvalidId, -1)
Heads == {GroupHead(0, 0), GroupHead(0, 1), GroupHead(1, 0),
          GroupHead(2, 0), GroupHead(3, 0)}

(***************************************************************************)
(* Fixture group grids: GridW x GridH points, each holding a head or none, *)
(* no head at two points.                                                  *)
(***************************************************************************)
GridW == 2
GridH == 2
Points == (0 .. (GridW - 1)) \X (0 .. (GridH - 1))

Layouts ==
    {l \in [Points -> Heads \cup {InvalidHead}] :
        /\ \A p, q \in Points : (p # q /\ l[p] # InvalidHead) => l[p] # l[q]
        /\ Cardinality({p \in Points : l[p] # InvalidHead}) <= MaxHeads}

\* Two layouts the Doc's groups switch between when a group is edited.
RowLayout ==
    [p \in Points |-> IF p = <<0, 0>> THEN GroupHead(1, 0)
                      ELSE IF p = <<1, 0>> THEN GroupHead(0, 0)
                      ELSE InvalidHead]
ColumnLayout ==
    [p \in Points |-> IF p = <<0, 0>> THEN GroupHead(0, 1)
                      ELSE IF p = <<0, 1>> THEN GroupHead(3, 0)
                      ELSE InvalidHead]
BasicLayouts == {RowLayout, ColumnLayout}

(***************************************************************************)
(* Collaborators, as the editor uses them                                  *)
(***************************************************************************)
AlgorithmTypes == {"Plain", "Text", "Image"}

\* m_matrix->algorithm() == NULL
NullAlgorithm ==
    [type |-> "None", steps |-> 0, text |-> 0, font |-> 0, style |-> 0,
     filename |-> 0, xOffset |-> 0, yOffset |-> 0, properties |-> 0,
     acceptColors |-> 0]

\* RGBAlgorithm::acceptColors() of the built-in algorithms
acceptColors(t) ==
    CASE t = "Plain" -> 1
      [] t = "Text" -> 2
      [] t = "Audio" -> 2
      [] OTHER -> 0

\* RGBAlgorithm::algorithm(doc, name): a new algorithm object with n steps
NewAlgorithm(t, n) ==
    [NullAlgorithm EXCEPT !.type = t, !.steps = n, !.acceptColors = acceptColors(t)]

\* a script declares its properties and the colours it accepts
NewScript(n, properties, colors) ==
    [NullAlgorithm EXCEPT !.type = "Script", !.steps = n,
                          !.properties = properties, !.acceptColors = colors]

NewAlgorithms ==
    {NullAlgorithm} \cup {NewAlgorithm(t, n) : t \in AlgorithmTypes, n \in 1 .. MaxSteps}

\* any algorithm the matrix can hold when the editor opens
Algorithms ==
    {NullAlgorithm}
    \cup {NewAlgorithm("Plain", n) : n \in 1 .. MaxSteps}
    \cup {[NewAlgorithm("Text", n) EXCEPT !.xOffset = x, !.yOffset = y] :
            n \in 1 .. MaxSteps, x \in Values, y \in Values}
    \cup {[NewAlgorithm("Image", n) EXCEPT !.xOffset = x, !.yOffset = y] :
            n \in 1 .. MaxSteps, x \in Values, y \in Values}

\* m_doc->fixtureGroup(id) != NULL
groupExists(groups, id) == id \in groups

\* m_matrix->stepsCount()
stepsCount(algo, groups, grp) ==
    IF algo.type = "None" \/ ~groupExists(groups, grp) THEN 0 ELSE algo.steps

startColor == 16711680      \* m_matrix->startColor(): red

\* RGBAlgorithm::rgbMap(size, rgb, step, map): GridH rows of GridW colours;
\* the pixels lit in a step are those whose index is the step, modulo n.
rgbMap(n, step) ==
    [y \in 1 .. GridH |->
        [x \in 1 .. GridW |->
            IF ((x - 1) + (y - 1) * GridW) % Max(n, 1) = step % Max(n, 1)
            THEN startColor ELSE 0]]

\* m_matrix->previewMap(step, m_previewHandler): the handler's map afterwards
previewMap(map, algo, groups, grp, step) ==
    IF algo.type = "None" \/ ~groupExists(groups, grp) THEN map
    ELSE rgbMap(algo.steps, step)

red(col) == (col \div 65536) % 256
green(col) == (col \div 256) % 256
blue(col) == col % 256

\* SceneValue::operator<
SceneValue(f, c, v) == [fxi |-> f, channel |-> c, value |-> v]
SceneValueLess(a, b) ==
    IF a.fxi = b.fxi THEN a.channel < b.channel ELSE a.fxi < b.fxi

RECURSIVE Insert(_, _)
Insert(v, s) ==
    IF s = <<>> THEN <<v>>
    ELSE IF SceneValueLess(v, Head(s)) THEN <<v>> \o s
    ELSE <<Head(s)>> \o Insert(v, Tail(s))

\* std::sort(values.begin(), values.end())
RECURSIVE Sort(_)
Sort(s) == IF s = <<>> THEN <<>> ELSE Insert(Head(s), Sort(Tail(s)))

\* QAbstractButton::click() on the checkable test button, with slotTestClicked
\* connected to clicked(): a disabled button ignores the click.
Click(b) ==
    IF b.enabled
    THEN [b EXCEPT !.checked = ~b.checked, !.running = ~b.checked]
    ELSE b

Button == [checked |-> testChecked, enabled |-> testEnabled, running |-> running]

\* the call slotTestClicked makes on the matrix when b is clicked
ClickCalls(b) ==
    IF b.enabled
    THEN (IF b.checked THEN <<"stopAndWait">> ELSE <<"start">>)
    ELSE <<>>

(***************************************************************************)
(* The fixture group combo                                                 *)
(***************************************************************************)
RECURSIVE SeqOf(_)
SeqOf(S) ==
    IF S = {} THEN <<>>
    ELSE LET m == CHOOSE x \in S : \A y \in S : x <= y
         IN <<m>> \o SeqOf(S \ {m})

\* fillFixtureGroupCombo: the items, "None" first
fillItems(groups) == <<NoData>> \o SeqOf(groups)

\* mutant: setCurrentIndex(count() - 2), one item too early
fillIndexOneEarly(groups, grp) ==
    IF grp \in groups THEN Cardinality({g \in groups : g < grp}) ELSE 0

\* fillFixtureGroupCombo: the current index left by the fill
fillIndex(groups, grp) ==
    IF grp \in groups THEN Cardinality({g \in groups : g < grp}) + 1 ELSE 0

\* m_fixtureGroupCombo->itemData(index)
itemData(items, index) == items[index + 1]

\* createPreviewItems(): its return value
createPreviewItems(map, algo, groups, grp, dir) ==
    /\ groupExists(groups, grp)
    /\ previewMap(map, algo, groups, grp,
                  IF dir = "Backward" THEN stepsCount(algo, groups, grp) - 1 ELSE 0) # <<>>

\* createPreviewItems(): the handler's map afterwards
createPreviewItemsMap(map, algo, groups, grp, dir) ==
    IF ~groupExists(groups, grp) THEN map
    ELSE previewMap(map, algo, groups, grp,
                    IF dir = "Backward" THEN stepsCount(algo, groups, grp) - 1 ELSE 0)

\* createPreviewItems(): the handler's step index afterwards.  The handler's
\* initializeDirection leaves it on the first step of the direction.
createPreviewItemsStep(index, algo, groups, grp, dir) ==
    IF ~groupExists(groups, grp) THEN index
    ELSE IF dir = "Backward" THEN stepsCount(algo, groups, grp) - 1 ELSE 0

(***************************************************************************)
(* The slot in progress                                                    *)
(***************************************************************************)
Op(name) == [op |-> name, field |-> "", value |-> 0]
Write(f, v) == [op |-> "write", field |-> f, value |-> v]
\* a call of name made by the slot caller
Call(name, caller) == [op |-> name, field |-> caller, value |-> 0]

Idle == todo = <<>>
At(name) == todo # <<>> /\ Head(todo).op = name

\* offsetsBefore while no updateExtraOptions call for a Text or an Image
\* algorithm is in progress in the slot
NoOffsets == [open |-> FALSE, xOffset |-> 0, yOffset |-> 0, rest |-> <<>>]

\* offsetsBefore lasts as long as the slot that called updateExtraOptions
offsetsKept == offsetsBefore' = IF todo' = <<>> THEN NoOffsets ELSE offsetsBefore

\* locals of slotSaveToSequenceClicked; phase tells how far the last call got,
\* rendered lists the step indices passed to previewMap, functionsAtEntry is
\* the number of functions the Doc held when the slot was entered
NoExport ==
    [phase |-> "none", testRunning |-> FALSE, scene |-> {}, sceneId |-> InvalidId,
     sequence |-> [boundSceneID |-> InvalidId, steps |-> <<>>],
     totalSteps |-> 0, increment |-> 0, currentStep |-> 0, i |-> 0,
     rendered |-> <<>>, functionsAtEntry |-> 0]

(***************************************************************************)
(* updateExtraOptions: the widget groups shown for an algorithm            *)
(***************************************************************************)
\* mutant: the Plain branch does not hide the offset group
extraOptionsOffsetKept(algo, shown) ==
    [text |-> algo.type = "Text",
     image |-> algo.type = "Image",
     offset |-> IF algo.type = "Plain" THEN shown.offset
                ELSE algo.type \in {"Text", "Image"},
     properties |-> algo.type = "Script" /\ algo.properties > 0]

\* the groups shown when updateExtraOptions returns (lines 309-366), with
\* displayProperties (lines 484-486) for a script, given those shown before
extraOptions(algo, shown) ==
    LET reset == [shown EXCEPT !.properties = FALSE]
        hidden == [reset EXCEPT !.text = FALSE, !.image = FALSE, !.offset = FALSE]
    IN  IF algo.type = "None" \/ algo.type = "Script" \/ algo.type = "Audio"
        THEN IF algo.type # "None" /\ algo.type = "Script"
             THEN [hidden EXCEPT !.properties = algo.properties > 0]
             ELSE hidden
        ELSE IF algo.type = "Plain" THEN hidden
        ELSE IF algo.type = "Image"
             THEN [reset EXCEPT !.text = FALSE, !.image = TRUE, !.offset = TRUE]
        ELSE IF algo.type = "Text"
             THEN [reset EXCEPT !.text = TRUE, !.offset = TRUE, !.image = FALSE]
        ELSE reset

\* the widget groups as the form shows them before updateExtraOptions
Shown == [text |-> textGroup, image |-> imageGroup, offset |-> offsetGroup,
          properties |-> propertiesGroup]
FormShown == [text |-> TRUE, image |-> TRUE, offset |-> TRUE, properties |-> TRUE]

(***************************************************************************)
(* Colours                                                                 *)
(***************************************************************************)
\* QColor(r, g, b), and QColor(): an invalid colour, whose rgb() is black
QColor(r, g, b) == [valid |-> TRUE, r |-> r, g |-> g, b |-> b]
Unset == [valid |-> FALSE, r |-> 0, g |-> 0, b |-> 0]
White == QColor(255, 255, 255)

\* the colours a colour dialog returns
Palette == {QColor(255, 0, 0), QColor(0, 100, 255), QColor(30, 30, 30), White}

\* qGray(col.rgb())
qGray(col) == (col.r * 11 + col.g * 16 + col.b * 5) \div 32
Gray(col) == QColor(qGray(col), qGray(col), qGray(col))

BlendModes == {"NormalBlend", "MaskBlend", "AdditiveBlend"}
ControlModes == {"ControlModeRgb", "ControlModeDimmer"}

\* the matrix as the editor finds it
InitColors(starts, ends, blends, modes) ==
    /\ m_startColor \in starts
    /\ m_endColor \in ends
    /\ blendMode \in blends
    /\ controlMode \in modes
    /\ startColorButtonEnabled = TRUE

InitSpeed(durations, fadeIns, ticks) ==
    /\ duration \in durations
    /\ fadeInSpeed \in fadeIns
    /\ tick \in ticks

\* init(), lines 165-169: a matrix with dimmer control checks the box, one
\* without hides the intensity group and leaves the box as the form made it
InitDimmer(dimmers) ==
    /\ dimmerControl \in dimmers
    /\ dimmerControlCb \in (IF dimmerControl THEN {TRUE} ELSE BOOLEAN)
    /\ dimmerControlCbEnabled = TRUE
    /\ intensityGroup = dimmerControl

\* Speeds are uints.  The model holds a uint as the int of the same bits, so
\* that sums and differences of the small values it uses are the machine's:
\* a negative number is a uint of the upper half of the range.
\* Function::infiniteSpeed() is (uint) -2
Infinite == -2

\* a >= b of two uints
uintGeq(a, b) == IF (a < 0) = (b < 0) THEN a >= b ELSE a < 0

\* Function::speedNormalize(speed): (int) speed < 0 is infinite
speedNormalize(speed) == IF speed < 0 THEN Infinite ELSE speed

\* Function::speedAdd(left, right)
speedAdd(left, right) ==
    IF speedNormalize(left) = Infinite \/ speedNormalize(right) = Infinite
    THEN Infinite
    ELSE speedNormalize(left + right)

\* step.hold of an exported step (line 1127), a difference of uints
stepHold(d, fadeIn) == d - fadeIn

\* m_speedDials while there is no speed dial widget
NoSpeedDials == [open |-> FALSE, fadeIn |-> 0, duration |-> 0]

\* what SpeedDialWidget::duration() can return after setDuration(ms): a
\* negative ms other than the infinite speed is kept, cut to 0 or infinite
dialValues(ms) == IF ms < 0 /\ ms # Infinite THEN {ms, 0, Infinite} ELSE {ms}

\* updateSpeedDials: the dials it leaves in m_speedDials
updateSpeedDials(button, dials, d, fadeIn) ==
    IF button = FALSE \/ dials.open
    THEN {dials}
    ELSE {[open |-> TRUE, fadeIn |-> fadeIn, duration |-> hold] :
            hold \in dialValues(IF d < 0 THEN d ELSE d - fadeIn)}

\* the speed dial button as the form made it, and the dial that
\* slotFunctionManagerActive(true) opens when the editor comes up
InitDials(buttons) ==
    /\ speedDialButton \in buttons
    /\ m_speedDials \in updateSpeedDials(speedDialButton, NoSpeedDials,
                                          duration, fadeInSpeed)

(***************************************************************************)
(* The state after the constructor: init(), then slotModeChanged(mode).    *)
(***************************************************************************)
InitEditor(modes, groupSets, bindings, algorithms, layouts) ==
    /\ docMode \in modes
    /\ docGroups \in groupSets
    /\ headsMap \in {[g \in GroupIds |-> l] : l \in layouts}
    /\ docFunctions = <<[type |-> "RGBMatrix", id |-> MatrixId, values |-> {},
                         boundSceneID |-> InvalidId, steps |-> <<>>]>>
    /\ fixtureGroup \in bindings
    /\ algorithm \in algorithms
    /\ runOrder \in {"Loop", "PingPong", "SingleShot"}
    /\ direction \in {"Forward", "Backward"}
    /\ running = FALSE
    /\ mutexHolder = "none"
    /\ testChecked = FALSE
    /\ testEnabled = (docMode # "Operate")
    /\ comboItems = fillItems(docGroups)
    /\ comboIndex = fillIndex(docGroups, fixtureGroup)
    /\ xOffsetSpin = algorithm.xOffset
    /\ yOffsetSpin = algorithm.yOffset
    /\ m_map = createPreviewItemsMap(<<>>, algorithm, docGroups, fixtureGroup, direction)
    /\ timerActive = createPreviewItems(<<>>, algorithm, docGroups, fixtureGroup, direction)
    /\ todo = <<>>
    /\ exp = NoExport
    /\ textGroup = extraOptions(algorithm, FormShown).text
    /\ imageGroup = extraOptions(algorithm, FormShown).image
    /\ offsetGroup = extraOptions(algorithm, FormShown).offset
    /\ propertiesGroup = extraOptions(algorithm, FormShown).properties
    /\ currentStepIndex = createPreviewItemsStep(0, algorithm, docGroups,
                                                 fixtureGroup, direction)
    /\ m_previewIterator = 0
    /\ accumulated = 0
    /\ advanced = 0
    /\ calls = <<>>
    /\ offsetsBefore = NoOffsets

(***************************************************************************)
(* slotRestartTest and the test button                                     *)
(***************************************************************************)
\* Function::stopAndWait() returns once the playback side has left the matrix
CanStop == mutexHolder # "playback"

\* slotTestClicked, after the user toggled the test button
slotTestClicked ==
    /\ Idle
    /\ testEnabled
    /\ testChecked => CanStop
    /\ testChecked' = Click(Button).checked
    /\ running' = Click(Button).running
    /\ UNCHANGED <<docMode, docGroups, headsMap, docFunctions, fixtureGroup,
                   algorithm, runOrder, direction, mutexHolder, testEnabled,
                   timerActive, comboItems, comboIndex, xOffsetSpin, yOffsetSpin,
                   m_map, todo, exp>>
    /\ calls' = ClickCalls(Button)
    /\ UNCHANGED <<optionVars, colorVars, timeoutVars, currentStepIndex>>
    /\ UNCHANGED <<dimmerVars, dialVars>>
    /\ offsetsKept

\* mutant: the button is clicked once: the test is toggled off and stays off
slotRestartTestOneClick ==
    /\ At("slotRestartTest")
    /\ (testChecked /\ testEnabled) => CanStop
    /\ testChecked' = IF testChecked THEN Click(Button).checked ELSE testChecked
    /\ running' = IF testChecked THEN Click(Button).running ELSE running
    /\ m_map' = createPreviewItemsMap(m_map, algorithm, docGroups, fixtureGroup, direction)
    /\ timerActive' = createPreviewItems(m_map, algorithm, docGroups, fixtureGroup, direction)
    /\ todo' = Tail(todo)
    /\ currentStepIndex' = createPreviewItemsStep(currentStepIndex, algorithm,
                                    docGroups, fixtureGroup, direction)
    /\ calls' = IF testChecked THEN ClickCalls(Button) ELSE <<>>
    /\ UNCHANGED <<docMode, docGroups, headsMap, docFunctions, fixtureGroup,
                   algorithm, runOrder, direction, mutexHolder, testEnabled,
                   comboItems, comboIndex, xOffsetSpin, yOffsetSpin, exp,
                   optionVars, colorVars, timeoutVars>>
    /\ UNCHANGED <<dimmerVars, dialVars>>
    /\ offsetsKept

\* slotRestartTest, run as the step of a slot that calls it
slotRestartTest ==
    /\ At("slotRestartTest")
    /\ (testChecked /\ testEnabled) => CanStop
    /\ testChecked' = IF testChecked THEN Click(Click(Button)).checked ELSE testChecked
    /\ running' = IF testChecked THEN Click(Click(Button)).running ELSE running
    /\ m_map' = createPreviewItemsMap(m_map, algorithm, docGroups, fixtureGroup, direction)
    /\ timerActive' = createPreviewItems(m_map, algorithm, docGroups, fixtureGroup, direction)
    /\ todo' = Tail(todo)
    /\ UNCHANGED <<docMode, docGroups, headsMap, docFunctions, fixtureGroup,
                   algorithm, runOrder, direction, mutexHolder, testEnabled,
                   comboItems, comboIndex, xOffsetSpin, yOffsetSpin, exp>>
    /\ currentStepIndex' = createPreviewItemsStep(currentStepIndex, algorithm,
                                    docGroups, fixtureGroup, direction)
    /\ calls' = IF testChecked
                THEN ClickCalls(Button) \o ClickCalls(Click(Button)) ELSE <<>>
    /\ UNCHANGED <<optionVars, colorVars, timeoutVars>>
    /\ UNCHANGED <<dimmerVars, dialVars>>
    /\ offsetsKept

\* mutant: Operate disables the test button and leaves it checked
slotModeChangedStillChecked(mode) ==
    /\ Idle
    /\ mode # docMode
    /\ docMode' = mode
    /\ IF mode = "Operate"
       THEN /\ testChecked => CanStop
            /\ running' = IF testChecked THEN FALSE ELSE running
            /\ testEnabled' = FALSE
            /\ UNCHANGED testChecked
       ELSE /\ testEnabled' = TRUE
            /\ UNCHANGED <<running, testChecked>>
    /\ calls' = IF mode = "Operate" /\ testChecked THEN <<"stopAndWait">> ELSE <<>>
    /\ UNCHANGED <<docGroups, headsMap, docFunctions, fixtureGroup, algorithm,
                   runOrder, direction, mutexHolder, timerActive, comboItems,
                   comboIndex, xOffsetSpin, yOffsetSpin, m_map, todo, exp,
                   optionVars, colorVars, timeoutVars, currentStepIndex>>
    /\ UNCHANGED <<dimmerVars, dialVars>>
    /\ offsetsKept

\* slotModeChanged(mode), on Doc::modeChanged
slotModeChanged(mode) ==
    /\ Idle
    /\ mode # docMode
    /\ docMode' = mode
    /\ IF mode = "Operate"
       THEN /\ testChecked => CanStop
            /\ running' = IF testChecked THEN FALSE ELSE running
            /\ testChecked' = FALSE
            /\ testEnabled' = FALSE
       ELSE /\ testEnabled' = TRUE
            /\ UNCHANGED <<running, testChecked>>
    /\ UNCHANGED <<docGroups, headsMap, docFunctions, fixtureGroup, algorithm,
                   runOrder, direction, mutexHolder, timerActive, comboItems,
                   comboIndex, xOffsetSpin, yOffsetSpin, m_map, todo, exp>>
    /\ calls' = IF mode = "Operate" /\ testChecked THEN <<"stopAndWait">> ELSE <<>>
    /\ UNCHANGED <<optionVars, colorVars, timeoutVars, currentStepIndex>>
    /\ UNCHANGED <<dimmerVars, dialVars>>
    /\ offsetsKept

(***************************************************************************)
(* Fixture groups                                                          *)
(***************************************************************************)
\* mutant: "None" unbinds the group but leaves the preview timer running
fixtureGroupActivatedTimerKept(items, index) ==
    IF itemData(items, index) # NoData
    THEN /\ fixtureGroup' = itemData(items, index)
         /\ todo' = <<Op("slotRestartTest")>>
         /\ UNCHANGED timerActive
    ELSE /\ fixtureGroup' = InvalidId
         /\ todo' = <<>>
         /\ UNCHANGED timerActive

\* slotFixtureGroupActivated(index), given the combo's items
fixtureGroupActivated(items, index) ==
    IF itemData(items, index) # NoData
    THEN /\ fixtureGroup' = itemData(items, index)
         /\ todo' = <<Op("slotRestartTest")>>
         /\ UNCHANGED timerActive
    ELSE /\ fixtureGroup' = InvalidId
         /\ timerActive' = FALSE
         /\ todo' = <<>>

\* slotFixtureGroupActivated(index), after the user picked item index
slotFixtureGroupActivated(index) ==
    /\ Idle
    /\ comboIndex' = index
    /\ fixtureGroupActivated(comboItems, index)
    /\ UNCHANGED <<docMode, docGroups, headsMap, docFunctions, algorithm, runOrder,
                   direction, running, mutexHolder, testChecked, testEnabled,
                   comboItems, xOffsetSpin, yOffsetSpin, m_map, exp>>
    /\ calls' = <<>>
    /\ UNCHANGED <<optionVars, colorVars, timeoutVars, currentStepIndex>>
    /\ UNCHANGED <<dimmerVars, dialVars>>
    /\ offsetsKept

\* slotFixtureGroupAdded, on Doc::fixtureGroupAdded(id)
slotFixtureGroupAdded(id) ==
    /\ Idle
    /\ id \notin docGroups
    /\ docGroups' = docGroups \cup {id}
    /\ comboItems' = fillItems(docGroups')
    /\ comboIndex' = fillIndex(docGroups', fixtureGroup)
    /\ UNCHANGED <<docMode, headsMap, docFunctions, fixtureGroup, algorithm,
                   runOrder, direction, running, mutexHolder, testChecked,
                   testEnabled, timerActive, xOffsetSpin, yOffsetSpin, m_map,
                   todo, exp>>
    /\ calls' = <<>>
    /\ UNCHANGED <<optionVars, colorVars, timeoutVars, currentStepIndex>>
    /\ UNCHANGED <<dimmerVars, dialVars>>
    /\ offsetsKept

\* slotFixtureGroupRemoved, on Doc::fixtureGroupRemoved(id)
slotFixtureGroupRemoved(id) ==
    /\ Idle
    /\ id \in docGroups
    /\ docGroups' = docGroups \ {id}
    /\ comboItems' = fillItems(docGroups')
    /\ comboIndex' = fillIndex(docGroups', fixtureGroup)
    /\ fixtureGroupActivated(comboItems', comboIndex')
    /\ UNCHANGED <<docMode, headsMap, docFunctions, algorithm, runOrder, direction,
                   running, mutexHolder, testChecked, testEnabled, xOffsetSpin,
                   yOffsetSpin, m_map, exp>>
    /\ calls' = <<>>
    /\ UNCHANGED <<optionVars, colorVars, timeoutVars, currentStepIndex>>
    /\ UNCHANGED <<dimmerVars, dialVars>>
    /\ offsetsKept

\* slotFixtureGroupChanged(id), on Doc::fixtureGroupChanged(id): the group
\* was given another layout (or another name, which the model does not hold)
slotFixtureGroupChanged(id, layout) ==
    /\ Idle
    /\ id \in docGroups
    /\ headsMap' = [headsMap EXCEPT ![id] = layout]
    /\ IF id = fixtureGroup
       THEN /\ comboItems' = fillItems(docGroups)
            /\ comboIndex' = fillIndex(docGroups, fixtureGroup)
            /\ fixtureGroupActivated(comboItems', comboIndex')
       ELSE UNCHANGED <<comboItems, comboIndex, fixtureGroup, timerActive, todo>>
    /\ UNCHANGED <<docMode, docGroups, docFunctions, algorithm, runOrder, direction,
                   running, mutexHolder, testChecked, testEnabled, xOffsetSpin,
                   yOffsetSpin, m_map, exp>>
    /\ calls' = <<>>
    /\ UNCHANGED <<optionVars, colorVars, timeoutVars, currentStepIndex>>
    /\ UNCHANGED <<dimmerVars, dialVars>>
    /\ offsetsKept

(***************************************************************************)
(* Run order and direction                                                 *)
(***************************************************************************)
setRunOrder(order) ==
    /\ Idle
    /\ runOrder' = order
    /\ todo' = <<Op("slotRestartTest")>>
    /\ UNCHANGED <<docMode, docGroups, headsMap, docFunctions, fixtureGroup,
                   algorithm, direction, running, mutexHolder, testChecked,
                   testEnabled, timerActive, comboItems, comboIndex, xOffsetSpin,
                   yOffsetSpin, m_map, exp>>
    /\ calls' = <<>>
    /\ UNCHANGED <<optionVars, colorVars, timeoutVars, currentStepIndex>>
    /\ UNCHANGED <<dimmerVars, dialVars>>
    /\ offsetsKept

setDirection(dir) ==
    /\ Idle
    /\ direction' = dir
    /\ todo' = <<Op("slotRestartTest")>>
    /\ UNCHANGED <<docMode, docGroups, headsMap, docFunctions, fixtureGroup,
                   algorithm, runOrder, running, mutexHolder, testChecked,
                   testEnabled, timerActive, comboItems, comboIndex, xOffsetSpin,
                   yOffsetSpin, m_map, exp>>
    /\ calls' = <<>>
    /\ UNCHANGED <<optionVars, colorVars, timeoutVars, currentStepIndex>>
    /\ UNCHANGED <<dimmerVars, dialVars>>
    /\ offsetsKept

slotLoopClicked == setRunOrder("Loop")
slotPingPongClicked == setRunOrder("PingPong")
slotSingleShotClicked == setRunOrder("SingleShot")
slotForwardClicked == setDirection("Forward")
slotBackwardClicked == setDirection("Backward")

(***************************************************************************)
(* The algorithm mutex and the slots that edit the installed algorithm     *)
(***************************************************************************)
\* mutant: the writes are made without the locker
unlockedWrites(writes) == writes \o <<Op("slotRestartTest")>>

\* mutant: the locker's scope reaches over the restart
lockedWritesAndRestart(writes) ==
    <<Op("lock")>> \o writes \o <<Op("slotRestartTest"), Op("unlock")>>

\* { QMutexLocker algorithmLocker(&m_matrix->algorithmMutex()); algo->set..(); }
\* slotRestartTest();
lockedWrites(writes) ==
    <<Op("lock")>> \o writes \o <<Op("unlock"), Op("slotRestartTest")>>

\* QMutexLocker's constructor: blocks until the mutex is free
algorithmLocker ==
    /\ At("lock")
    /\ mutexHolder = "none"
    /\ mutexHolder' = "editor"
    /\ todo' = Tail(todo)
    /\ UNCHANGED <<docMode, docGroups, headsMap, docFunctions, fixtureGroup,
                   algorithm, runOrder, direction, running, testChecked,
                   testEnabled, timerActive, comboItems, comboIndex, xOffsetSpin,
                   yOffsetSpin, m_map, exp>>
    /\ calls' = <<>>
    /\ UNCHANGED <<optionVars, colorVars, timeoutVars, currentStepIndex>>
    /\ UNCHANGED <<dimmerVars, dialVars>>
    /\ offsetsKept

\* QMutexLocker's destructor, at the end of the scope
algorithmUnlocker ==
    /\ At("unlock")
    /\ mutexHolder' = IF mutexHolder = "editor" THEN "none" ELSE mutexHolder
    /\ todo' = Tail(todo)
    /\ UNCHANGED <<docMode, docGroups, headsMap, docFunctions, fixtureGroup,
                   algorithm, runOrder, direction, running, testChecked,
                   testEnabled, timerActive, comboItems, comboIndex, xOffsetSpin,
                   yOffsetSpin, m_map, exp>>
    /\ calls' = <<>>
    /\ UNCHANGED <<optionVars, colorVars, timeoutVars, currentStepIndex>>
    /\ UNCHANGED <<dimmerVars, dialVars>>
    /\ offsetsKept

\* algo->setText / setFont / setAnimationStyle / setFilename / setXOffset /
\* setYOffset on the installed algorithm
algorithmWrite ==
    /\ At("write")
    /\ algorithm' = [algorithm EXCEPT ![Head(todo).field] = Head(todo).value]
    /\ todo' = Tail(todo)
    /\ UNCHANGED <<docMode, docGroups, headsMap, docFunctions, fixtureGroup,
                   runOrder, direction, running, mutexHolder, testChecked,
                   testEnabled, timerActive, comboItems, comboIndex, xOffsetSpin,
                   yOffsetSpin, m_map, exp>>
    /\ calls' = <<>>
    /\ UNCHANGED <<optionVars, colorVars, timeoutVars, currentStepIndex>>
    /\ UNCHANGED <<dimmerVars, dialVars>>
    /\ offsetsKept

\* a slot that only queues its calls
queues(ops) ==
    /\ Idle
    /\ todo' = ops
    /\ UNCHANGED <<docMode, docGroups, headsMap, docFunctions, fixtureGroup,
                   algorithm, runOrder, direction, running, mutexHolder,
                   testChecked, testEnabled, timerActive, comboItems, comboIndex,
                   xOffsetSpin, yOffsetSpin, m_map, exp>>
    /\ calls' = <<>>
    /\ UNCHANGED <<optionVars, colorVars, timeoutVars, currentStepIndex>>
    /\ UNCHANGED <<dimmerVars, dialVars>>
    /\ offsetsKept

slotTextEdited(text) ==
    /\ algorithm.type = "Text"
    /\ queues(lockedWrites(<<Write("text", text)>>))

\* the font dialog was accepted with font
slotFontButtonClicked(font) ==
    /\ algorithm.type = "Text"
    /\ queues(lockedWrites(<<Write("font", font)>>))

slotAnimationActivated(style) ==
    /\ algorithm.type = "Text"
    /\ queues(lockedWrites(<<Write("style", style)>>))

\* editingFinished with m_imageEdit->text() = filename
slotImageEdited(filename) ==
    /\ algorithm.type = "Image"
    /\ queues(lockedWrites(<<Write("filename", filename)>>))

\* the file dialog returned a non-empty path
slotImageButtonClicked(path) ==
    /\ algorithm.type = "Image"
    /\ queues(lockedWrites(<<Write("filename", path)>>))

slotImageAnimationActivated(style) ==
    /\ algorithm.type = "Image"
    /\ queues(lockedWrites(<<Write("style", style)>>))

\* slotOffsetSpinChanged with the spin boxes at x and y: what it runs
offsetSpinChanged(type, x, y) ==
    (IF type = "Text"
     THEN lockedWrites(<<Write("xOffset", x), Write("yOffset", y)>>) ELSE <<>>)
    \o
    (IF type = "Image"
     THEN lockedWrites(<<Write("xOffset", x), Write("yOffset", y)>>) ELSE <<>>)

\* slotOffsetSpinChanged, after the user set a spin box (shown for Text and
\* Image only) to another value
slotOffsetSpinChanged(x, y) ==
    /\ Idle
    /\ algorithm.type \in {"Text", "Image"}
    /\ (x # xOffsetSpin) # (y # yOffsetSpin)
    /\ xOffsetSpin' = x
    /\ yOffsetSpin' = y
    /\ todo' = offsetSpinChanged(algorithm.type, x, y)
    /\ UNCHANGED <<docMode, docGroups, headsMap, docFunctions, fixtureGroup,
                   algorithm, runOrder, direction, running, mutexHolder,
                   testChecked, testEnabled, timerActive, comboItems, comboIndex,
                   m_map, exp>>
    /\ calls' = <<>>
    /\ UNCHANGED <<optionVars, colorVars, timeoutVars, currentStepIndex>>
    /\ UNCHANGED <<dimmerVars, dialVars>>
    /\ offsetsKept

\* m_xOffsetSpin->setValue(algo->xOffset()): valueChanged, hence
\* slotOffsetSpinChanged, only if the value changes
xOffsetSpinSetValue ==
    /\ At("xOffsetSpin")
    /\ xOffsetSpin' = algorithm.xOffset
    /\ todo' = (IF xOffsetSpin' # xOffsetSpin
                THEN offsetSpinChanged(algorithm.type, xOffsetSpin', yOffsetSpin)
                ELSE <<>>) \o Tail(todo)
    /\ UNCHANGED <<docMode, docGroups, headsMap, docFunctions, fixtureGroup,
                   algorithm, runOrder, direction, running, mutexHolder,
                   testChecked, testEnabled, timerActive, comboItems, comboIndex,
                   yOffsetSpin, m_map, exp>>
    /\ calls' = <<>>
    /\ UNCHANGED <<optionVars, colorVars, timeoutVars, currentStepIndex>>
    /\ UNCHANGED <<dimmerVars, dialVars>>
    /\ offsetsKept

\* m_yOffsetSpin->setValue(algo->yOffset())
yOffsetSpinSetValue ==
    /\ At("yOffsetSpin")
    /\ yOffsetSpin' = algorithm.yOffset
    /\ todo' = (IF yOffsetSpin' # yOffsetSpin
                THEN offsetSpinChanged(algorithm.type, xOffsetSpin, yOffsetSpin')
                ELSE <<>>) \o Tail(todo)
    /\ UNCHANGED <<docMode, docGroups, headsMap, docFunctions, fixtureGroup,
                   algorithm, runOrder, direction, running, mutexHolder,
                   testChecked, testEnabled, timerActive, comboItems, comboIndex,
                   xOffsetSpin, m_map, exp>>
    /\ calls' = <<>>
    /\ UNCHANGED <<optionVars, colorVars, timeoutVars, currentStepIndex>>
    /\ UNCHANGED <<dimmerVars, dialVars>>
    /\ offsetsKept

\* updateExtraOptions: for Image and Text the spin boxes take the offsets
updateExtraOptions ==
    /\ At("updateExtraOptions")
    /\ todo' = (IF algorithm.type \in {"Image", "Text"}
                THEN <<Op("xOffsetSpin"), Op("yOffsetSpin")>>
                ELSE <<>>) \o Tail(todo)
    /\ UNCHANGED <<docMode, docGroups, headsMap, docFunctions, fixtureGroup,
                   algorithm, runOrder, direction, running, mutexHolder,
                   testChecked, testEnabled, timerActive, comboItems, comboIndex,
                   xOffsetSpin, yOffsetSpin, m_map, exp>>
    /\ textGroup' = extraOptions(algorithm, Shown).text
    /\ imageGroup' = extraOptions(algorithm, Shown).image
    /\ offsetGroup' = extraOptions(algorithm, Shown).offset
    /\ propertiesGroup' = extraOptions(algorithm, Shown).properties
    /\ calls' = <<>>
    /\ UNCHANGED <<colorVars, timeoutVars, currentStepIndex>>
    /\ UNCHANGED <<dimmerVars, dialVars>>
    /\ offsetsBefore' =
            IF algorithm.type \in {"Image", "Text"}
            THEN [open |-> TRUE, xOffset |-> algorithm.xOffset,
                  yOffset |-> algorithm.yOffset, rest |-> Tail(todo)]
            ELSE IF todo' = <<>> THEN NoOffsets ELSE offsetsBefore

\* slotPatternActivated(text), with algo = RGBAlgorithm::algorithm(m_doc, text);
\* RGBMatrix::setAlgorithm swaps the algorithm under the algorithm mutex
slotPatternActivated(algo) ==
    /\ Idle
    /\ mutexHolder = "none"
    /\ algorithm' = algo
    /\ todo' = <<Op("updateExtraOptions"), Op("slotRestartTest")>>
    /\ UNCHANGED <<docMode, docGroups, headsMap, docFunctions, fixtureGroup,
                   runOrder, direction, running, mutexHolder, testChecked,
                   testEnabled, timerActive, comboItems, comboIndex, xOffsetSpin,
                   yOffsetSpin, m_map, exp>>
    /\ calls' = <<>>
    /\ UNCHANGED <<optionVars, colorVars, timeoutVars, currentStepIndex>>
    /\ UNCHANGED <<dimmerVars, dialVars>>
    /\ offsetsKept

(***************************************************************************)
(* The playback side: while the matrix runs, RGBMatrix::write reads the    *)
(* algorithm under the algorithm mutex.                                    *)
(***************************************************************************)
PlaybackLock ==
    /\ running
    /\ mutexHolder = "none"
    /\ mutexHolder' = "playback"
    /\ UNCHANGED <<docMode, docGroups, headsMap, docFunctions, fixtureGroup,
                   algorithm, runOrder, direction, running, testChecked,
                   testEnabled, timerActive, comboItems, comboIndex, xOffsetSpin,
                   yOffsetSpin, m_map, todo, exp>>
    /\ calls' = <<>>
    /\ UNCHANGED <<optionVars, colorVars, timeoutVars, currentStepIndex>>
    /\ UNCHANGED <<dimmerVars, dialVars>>
    /\ offsetsKept

PlaybackUnlock ==
    /\ mutexHolder = "playback"
    /\ mutexHolder' = "none"
    /\ UNCHANGED <<docMode, docGroups, headsMap, docFunctions, fixtureGroup,
                   algorithm, runOrder, direction, running, testChecked,
                   testEnabled, timerActive, comboItems, comboIndex, xOffsetSpin,
                   yOffsetSpin, m_map, todo, exp>>
    /\ calls' = <<>>
    /\ UNCHANGED <<optionVars, colorVars, timeoutVars, currentStepIndex>>
    /\ UNCHANGED <<dimmerVars, dialVars>>
    /\ offsetsKept

(***************************************************************************)
(* slotSaveToSequenceClicked                                               *)
(***************************************************************************)
\* the scene values set for one head (lines 1071-1084), or the step values
\* appended for it with colour col (lines 1140-1154)
headValues(head, col, inScene) ==
    IF head.fxi \notin DocFixtures THEN <<>>
    ELSE (IF Len(rgbChannels(head.fxi, head.head)) = 3
          THEN <<SceneValue(head.fxi, rgbChannels(head.fxi, head.head)[1],
                            IF inScene THEN 0 ELSE red(col)),
                 SceneValue(head.fxi, rgbChannels(head.fxi, head.head)[2],
                            IF inScene THEN 0 ELSE green(col)),
                 SceneValue(head.fxi, rgbChannels(head.fxi, head.head)[3],
                            IF inScene THEN 0 ELSE blue(col))>>
          ELSE <<>>)
         \o
         (IF masterChannel(head.fxi, head.head) # InvalidChannel
          THEN <<SceneValue(head.fxi, masterChannel(head.fxi, head.head),
                            IF inScene \/ col = 0 THEN 0 ELSE 255)>>
          ELSE <<>>)

\* mutant: the scene takes the RGB channels and forgets the master dimmers
sceneValuesRgbOnly(layout) ==
    UNION {{SceneValue(layout[p].fxi, rgbChannels(layout[p].fxi, layout[p].head)[k], 0) :
                k \in 1 .. Len(rgbChannels(layout[p].fxi, layout[p].head))} :
           p \in {q \in Points : layout[q] # InvalidHead /\ layout[q].fxi \in DocFixtures}}

\* grpScene after the loop over grp->headList()
sceneValues(layout) ==
    UNION {{headValues(layout[p], 0, TRUE)[k] :
                k \in 1 .. Len(headValues(layout[p], 0, TRUE))} :
           p \in {q \in Points : layout[q] # InvalidHead}}

\* step.values after the loops over m_map[y][x], before the sort
RECURSIVE stepValuesFrom(_, _, _)
stepValuesFrom(k, map, layout) ==
    IF map = <<>> \/ k >= Len(map) * Len(map[1]) THEN <<>>
    ELSE LET y == k \div Len(map[1])
             x == k % Len(map[1])
         IN headValues(layout[<<x, y>>], map[y + 1][x + 1], FALSE)
            \o stepValuesFrom(k + 1, map, layout)

\* mutant: the values are left in grid order
stepValuesUnsorted(map, layout) == stepValuesFrom(0, map, layout)

\* step.values as added to the sequence
stepValues(map, layout) == Sort(stepValuesFrom(0, map, layout))

\* mutant: the ping-pong walk counts its turning step twice
totalStepsDoubled(n, order) == IF order = "PingPong" THEN n * 2 ELSE n

\* totalSteps as the loop uses it
totalStepsOf(n, order) == IF order = "PingPong" THEN (n * 2) - 1 ELSE n

\* currentStep and increment after one pass of the loop
advance(currentStep, increment, totalSteps, order) ==
    IF currentStep + increment = totalSteps /\ order = "PingPong"
    THEN [currentStep |-> totalSteps - 2, increment |-> -1]
    ELSE [currentStep |-> currentStep + increment, increment |-> increment]

\* mutant: the sequence is bound before the Doc has given the scene its id
exportCallsBindFirst ==
    <<Op("newSequence"), Op("addScene"), Op("exportStep"), Op("addSequence"),
      Op("exportDone")>>

\* what the slot runs after building the scene
exportCalls ==
    <<Op("addScene"), Op("newSequence"), Op("exportStep"), Op("addSequence"),
      Op("exportDone")>>

DocFunction(t, id, values, bound, steps) ==
    [type |-> t, id |-> id, values |-> values, boundSceneID |-> bound, steps |-> steps]

\* mutant: the algorithm is not tested
returnsEarlyAlgorithmUntested(grp, groups, algo) ==
    grp = InvalidId \/ ~groupExists(groups, grp)

\* the slot returns at once: no group bound, or the id resolves to no group,
\* or no algorithm (lines 1048-1052)
returnsEarly(grp, groups, algo) ==
    grp = InvalidId \/ ~groupExists(groups, grp) \/ algo.type = "None"

\* the slot up to the scene being built: lines 1046-1085
slotSaveToSequenceClicked ==
    /\ Idle
    /\ IF returnsEarly(fixtureGroup, docGroups, algorithm)
       THEN /\ exp' = [NoExport EXCEPT !.phase = "returned"]
            /\ UNCHANGED <<testChecked, running, timerActive, todo>>
       ELSE /\ Len(docFunctions) + 2 <= 1 + 2 * MaxExports
            /\ testChecked => CanStop
            /\ testChecked' = IF testChecked THEN Click(Button).checked ELSE testChecked
            /\ running' = IF testChecked THEN Click(Button).running ELSE running
            /\ timerActive' = IF testChecked THEN timerActive ELSE FALSE
            /\ exp' = [NoExport EXCEPT !.phase = "scene",
                                       !.testRunning = testChecked,
                                       !.scene = sceneValues(headsMap[fixtureGroup]),
                                       !.functionsAtEntry = Len(docFunctions)]
            /\ todo' = exportCalls
    /\ UNCHANGED <<docMode, docGroups, headsMap, docFunctions, fixtureGroup,
                   algorithm, runOrder, direction, mutexHolder, testEnabled,
                   comboItems, comboIndex, xOffsetSpin, yOffsetSpin, m_map>>
    /\ calls' = IF ~returnsEarly(fixtureGroup, docGroups, algorithm) /\ testChecked
                THEN ClickCalls(Button) ELSE <<>>
    /\ UNCHANGED <<optionVars, colorVars, timeoutVars, currentStepIndex>>
    /\ UNCHANGED <<dimmerVars, dialVars>>
    /\ offsetsKept

\* m_doc->addFunction(grpScene): the Doc gives the scene its id (line 1086)
addScene ==
    /\ At("addScene")
    /\ docFunctions' = Append(docFunctions,
            DocFunction("Scene", Len(docFunctions), exp.scene, InvalidId, <<>>))
    /\ exp' = [exp EXCEPT !.sceneId = Len(docFunctions), !.phase = "sceneAdded"]
    /\ todo' = Tail(todo)
    /\ UNCHANGED <<docMode, docGroups, headsMap, fixtureGroup, algorithm, runOrder,
                   direction, running, mutexHolder, testChecked, testEnabled,
                   timerActive, comboItems, comboIndex, xOffsetSpin, yOffsetSpin,
                   m_map>>
    /\ calls' = <<>>
    /\ UNCHANGED <<optionVars, colorVars, timeoutVars, currentStepIndex>>
    /\ UNCHANGED <<dimmerVars, dialVars>>
    /\ offsetsKept

\* lines 1088-1120: the walk's start and the new sequence bound to the scene
newSequence ==
    /\ At("newSequence")
    /\ LET n == stepsCount(algorithm, docGroups, fixtureGroup)
       IN exp' = [exp EXCEPT
                    !.totalSteps = totalStepsOf(n, runOrder),
                    !.increment = IF direction = "Backward" THEN -1 ELSE 1,
                    !.currentStep = IF direction = "Backward" THEN n - 1 ELSE 0,
                    !.sequence = [boundSceneID |-> exp.sceneId, steps |-> <<>>],
                    !.phase = "sequence"]
    /\ todo' = Tail(todo)
    /\ UNCHANGED <<docMode, docGroups, headsMap, docFunctions, fixtureGroup,
                   algorithm, runOrder, direction, running, mutexHolder,
                   testChecked, testEnabled, timerActive, comboItems, comboIndex,
                   xOffsetSpin, yOffsetSpin, m_map>>
    /\ calls' = <<>>
    /\ UNCHANGED <<optionVars, colorVars, timeoutVars, currentStepIndex>>
    /\ UNCHANGED <<dimmerVars, dialVars>>
    /\ offsetsKept

\* one pass of the loop of lines 1122-1169, or its exit
exportStep ==
    /\ At("exportStep")
    /\ IF exp.i < exp.totalSteps
       THEN /\ m_map' = previewMap(m_map, algorithm, docGroups, fixtureGroup,
                                   exp.currentStep)
            /\ exp' = [exp EXCEPT
                    !.rendered = Append(@, exp.currentStep),
                    !.sequence.steps = Append(@,
                        [fid |-> exp.sceneId,
                         hold |-> stepHold(duration, fadeInSpeed),
                         duration |-> duration,
                         fadeIn |-> fadeInSpeed,
                         values |-> stepValues(m_map', headsMap[fixtureGroup])]),
                    !.currentStep = advance(exp.currentStep, exp.increment,
                                            exp.totalSteps, runOrder).currentStep,
                    !.increment = advance(exp.currentStep, exp.increment,
                                          exp.totalSteps, runOrder).increment,
                    !.i = @ + 1]
            /\ UNCHANGED todo
       ELSE /\ exp' = [exp EXCEPT !.phase = "stepsDone"]
            /\ todo' = Tail(todo)
            /\ UNCHANGED m_map
    /\ UNCHANGED <<docMode, docGroups, headsMap, docFunctions, fixtureGroup,
                   algorithm, runOrder, direction, running, mutexHolder,
                   testChecked, testEnabled, timerActive, comboItems, comboIndex,
                   xOffsetSpin, yOffsetSpin>>
    /\ calls' = <<>>
    /\ UNCHANGED <<optionVars, colorVars, timeoutVars, currentStepIndex>>
    /\ UNCHANGED <<dimmerVars, dialVars>>
    /\ offsetsKept

\* m_doc->addFunction(sequence) (line 1171)
addSequence ==
    /\ At("addSequence")
    /\ docFunctions' = Append(docFunctions,
            DocFunction("Sequence", Len(docFunctions), {},
                        exp.sequence.boundSceneID, exp.sequence.steps))
    /\ exp' = [exp EXCEPT !.phase = "sequenceAdded"]
    /\ todo' = Tail(todo)
    /\ UNCHANGED <<docMode, docGroups, headsMap, fixtureGroup, algorithm, runOrder,
                   direction, running, mutexHolder, testChecked, testEnabled,
                   timerActive, comboItems, comboIndex, xOffsetSpin, yOffsetSpin,
                   m_map>>
    /\ calls' = <<>>
    /\ UNCHANGED <<optionVars, colorVars, timeoutVars, currentStepIndex>>
    /\ UNCHANGED <<dimmerVars, dialVars>>
    /\ offsetsKept

\* mutant: testRunning is not looked at, the preview is always rebuilt
exportDonePreviewOnly ==
    /\ At("exportDone")
    /\ IF FALSE
       THEN /\ testChecked' = Click(Button).checked
            /\ running' = Click(Button).running
            /\ UNCHANGED <<timerActive, m_map>>
       ELSE /\ m_map' = createPreviewItemsMap(m_map, algorithm, docGroups,
                                              fixtureGroup, direction)
            /\ timerActive' = (timerActive \/ createPreviewItems(m_map, algorithm,
                                    docGroups, fixtureGroup, direction))
            /\ UNCHANGED <<testChecked, running>>
    /\ exp' = [NoExport EXCEPT !.phase = "done"]
    /\ todo' = Tail(todo)
    /\ UNCHANGED <<docMode, docGroups, headsMap, docFunctions, fixtureGroup,
                   algorithm, runOrder, direction, mutexHolder, testEnabled,
                   comboItems, comboIndex, xOffsetSpin, yOffsetSpin>>
    /\ currentStepIndex' =
            IF FALSE THEN currentStepIndex
            ELSE createPreviewItemsStep(currentStepIndex, algorithm, docGroups,
                                        fixtureGroup, direction)
    /\ calls' = IF FALSE THEN ClickCalls(Button) ELSE <<>>
    /\ UNCHANGED <<optionVars, colorVars, timeoutVars>>
    /\ UNCHANGED <<dimmerVars, dialVars>>
    /\ offsetsKept

\* lines 1173-1176: the test or the preview is started again
exportDone ==
    /\ At("exportDone")
    /\ IF exp.testRunning
       THEN /\ testChecked' = Click(Button).checked
            /\ running' = Click(Button).running
            /\ UNCHANGED <<timerActive, m_map>>
       ELSE /\ m_map' = createPreviewItemsMap(m_map, algorithm, docGroups,
                                              fixtureGroup, direction)
            /\ timerActive' = (timerActive \/ createPreviewItems(m_map, algorithm,
                                    docGroups, fixtureGroup, direction))
            /\ UNCHANGED <<testChecked, running>>
    /\ exp' = [NoExport EXCEPT !.phase = "done"]
    /\ todo' = Tail(todo)
    /\ UNCHANGED <<docMode, docGroups, headsMap, docFunctions, fixtureGroup,
                   algorithm, runOrder, direction, mutexHolder, testEnabled,
                   comboItems, comboIndex, xOffsetSpin, yOffsetSpin>>
    /\ currentStepIndex' =
            IF exp.testRunning THEN currentStepIndex
            ELSE createPreviewItemsStep(currentStepIndex, algorithm, docGroups,
                                        fixtureGroup, direction)
    /\ calls' = IF exp.testRunning THEN ClickCalls(Button) ELSE <<>>
    /\ UNCHANGED <<optionVars, colorVars, timeoutVars>>
    /\ UNCHANGED <<dimmerVars, dialVars>>
    /\ offsetsKept

(***************************************************************************)
(* What the slots below leave alone                                        *)
(***************************************************************************)
docVars == <<docMode, docGroups, headsMap, docFunctions>>
matrixVars == <<fixtureGroup, algorithm, runOrder, direction, mutexHolder>>
comboVars == <<comboItems, comboIndex, xOffsetSpin, yOffsetSpin>>

(***************************************************************************)
(* stopTest and the destructor                                             *)
(***************************************************************************)
\* stopTest(): the owner of the editor asks it to stop testing
stopTest ==
    /\ Idle
    /\ testChecked => CanStop
    /\ testChecked' = IF testChecked THEN Click(Button).checked ELSE testChecked
    /\ running' = IF testChecked THEN Click(Button).running ELSE running
    /\ calls' = IF testChecked THEN ClickCalls(Button) ELSE <<>>
    /\ UNCHANGED <<docVars, matrixVars, comboVars, testEnabled, timerActive, m_map,
                   todo, exp, optionVars, colorVars, timeoutVars, currentStepIndex>>
    /\ UNCHANGED <<dimmerVars, dialVars>>
    /\ offsetsKept

\* mutant: the destructor stops the timer only
destructorTimerOnly ==
    /\ Idle
    /\ timerActive' = FALSE
    /\ calls' = <<>>
    /\ todo' = <<Op("destroyed")>>
    /\ UNCHANGED <<docVars, matrixVars, comboVars, running, testChecked, testEnabled,
                   m_map, exp, optionVars, colorVars, timeoutVars, currentStepIndex>>
    /\ UNCHANGED <<dimmerVars, dialVars>>
    /\ offsetsKept

\* ~RGBMatrixEditor(): no slot runs once the editor is destroyed
destructor ==
    /\ Idle
    /\ testChecked => CanStop
    /\ timerActive' = FALSE
    /\ running' = IF testChecked THEN FALSE ELSE running
    /\ calls' = IF testChecked THEN <<"stopAndWait">> ELSE <<>>
    /\ todo' = <<Op("destroyed")>>
    /\ UNCHANGED <<docVars, matrixVars, comboVars, testChecked, testEnabled,
                   m_map, exp, optionVars, colorVars, timeoutVars, currentStepIndex>>
    /\ UNCHANGED <<dimmerVars, dialVars>>
    /\ offsetsKept

(***************************************************************************)
(* The colour slots                                                        *)
(***************************************************************************)
\* mutant: the mask branch whitens the start colour and keeps the end colour
updateColorsEndKept(algo, blend, mode, start, end) ==
    IF algo.type = "None" \/ algo.acceptColors <= 0
    THEN [start |-> start, end |-> end]
    ELSE IF blend = "MaskBlend" THEN [start |-> White, end |-> end]
    ELSE IF mode # "ControlModeRgb"
         THEN [start |-> Gray(start),
               end |-> IF algo.acceptColors > 1 THEN Gray(end) ELSE end]
    ELSE [start |-> start, end |-> end]

\* mutant: the grey level is the colour's red component
updateColorsRedAsGray(algo, blend, mode, start, end) ==
    IF algo.type = "None" \/ algo.acceptColors <= 0
    THEN [start |-> start, end |-> end]
    ELSE IF blend = "MaskBlend" THEN [start |-> White, end |-> Unset]
    ELSE IF mode # "ControlModeRgb"
         THEN [start |-> QColor(start.r, start.r, start.r),
               end |-> IF algo.acceptColors > 1 THEN Gray(end) ELSE end]
    ELSE [start |-> start, end |-> end]

\* updateColors(): the matrix's start and end colour afterwards
updateColorsOf(algo, blend, mode, start, end) ==
    IF algo.type = "None" \/ algo.acceptColors <= 0
    THEN [start |-> start, end |-> end]
    ELSE IF blend = "MaskBlend" THEN [start |-> White, end |-> Unset]
    ELSE IF mode # "ControlModeRgb"
         THEN [start |-> Gray(start),
               end |-> IF algo.acceptColors > 1 THEN Gray(end) ELSE end]
    ELSE [start |-> start, end |-> end]

\* updateColors(), run as the step of a slot that calls it
updateColors ==
    /\ At("updateColors")
    /\ m_startColor' = updateColorsOf(algorithm, blendMode, controlMode,
                                      m_startColor, m_endColor).start
    /\ m_endColor' = updateColorsOf(algorithm, blendMode, controlMode,
                                    m_startColor, m_endColor).end
    /\ todo' = Tail(todo)
    /\ calls' = <<>>
    /\ UNCHANGED <<docVars, matrixVars, comboVars, running, testChecked, testEnabled,
                   timerActive, m_map, exp, optionVars, blendMode, controlMode,
                   startColorButtonEnabled, timeoutVars, currentStepIndex>>
    /\ UNCHANGED <<dimmerVars, dialVars>>
    /\ offsetsKept

\* what a colour slot calls after its own assignments
colorCalls(slot) == <<Call("updateColors", slot), Call("slotRestartTest", slot)>>

\* slotBlendModeChanged(index), after the user picked a blend mode
slotBlendModeChanged(index) ==
    /\ Idle
    /\ blendMode' = index
    /\ startColorButtonEnabled' = (index # "MaskBlend")
    /\ todo' = <<Op("updateExtraOptions")>> \o colorCalls("slotBlendModeChanged")
    /\ calls' = <<>>
    /\ UNCHANGED <<docVars, matrixVars, comboVars, running, testChecked, testEnabled,
                   timerActive, m_map, exp, optionVars, m_startColor, m_endColor,
                   controlMode, timeoutVars, currentStepIndex>>
    /\ UNCHANGED <<dimmerVars, dialVars>>
    /\ offsetsKept

\* slotColorModeChanged(index), after the user picked a control mode
slotColorModeChanged(index) ==
    /\ Idle
    /\ controlMode' = index
    /\ todo' = colorCalls("slotColorModeChanged")
    /\ calls' = <<>>
    /\ UNCHANGED <<docVars, matrixVars, comboVars, running, testChecked, testEnabled,
                   timerActive, m_map, exp, optionVars, m_startColor, m_endColor,
                   blendMode, startColorButtonEnabled, timeoutVars, currentStepIndex>>
    /\ UNCHANGED <<dimmerVars, dialVars>>
    /\ offsetsKept

\* slotStartColorButtonClicked, the colour dialog returning col (invalid when
\* the dialog was cancelled)
slotStartColorButtonClicked(col) ==
    /\ Idle
    /\ startColorButtonEnabled
    /\ IF col.valid
       THEN /\ m_startColor' = col
            /\ todo' = colorCalls("slotStartColorButtonClicked")
       ELSE UNCHANGED <<m_startColor, todo>>
    /\ calls' = <<>>
    /\ UNCHANGED <<docVars, matrixVars, comboVars, running, testChecked, testEnabled,
                   timerActive, m_map, exp, optionVars, m_endColor, blendMode,
                   controlMode, startColorButtonEnabled, timeoutVars,
                   currentStepIndex>>
    /\ UNCHANGED <<dimmerVars, dialVars>>
    /\ offsetsKept

\* slotEndColorButtonClicked, the colour dialog returning col
slotEndColorButtonClicked(col) ==
    /\ Idle
    /\ IF col.valid
       THEN /\ m_endColor' = col
            /\ todo' = colorCalls("slotEndColorButtonClicked")
       ELSE UNCHANGED <<m_endColor, todo>>
    /\ calls' = <<>>
    /\ UNCHANGED <<docVars, matrixVars, comboVars, running, testChecked, testEnabled,
                   timerActive, m_map, exp, optionVars, m_startColor, blendMode,
                   controlMode, startColorButtonEnabled, timeoutVars,
                   currentStepIndex>>
    /\ UNCHANGED <<dimmerVars, dialVars>>
    /\ offsetsKept

\* slotResetEndColorButtonClicked
slotResetEndColorButtonClicked ==
    /\ Idle
    /\ m_endColor' = Unset
    /\ todo' = colorCalls("slotResetEndColorButtonClicked")
    /\ calls' = <<>>
    /\ UNCHANGED <<docVars, matrixVars, comboVars, running, testChecked, testEnabled,
                   timerActive, m_map, exp, optionVars, m_startColor, blendMode,
                   controlMode, startColorButtonEnabled, timeoutVars,
                   currentStepIndex>>
    /\ UNCHANGED <<dimmerVars, dialVars>>
    /\ offsetsKept

(***************************************************************************)
(* The preview timer                                                       *)
(***************************************************************************)
\* mutant: the period is the duration, however short
periodOfDuration(d, t) == d

\* MAX(m_matrix->duration(), MasterTimer::tick()), for a finite duration
period(d, t) == Max(d, t)

\* slotPreviewTimeout up to its loop (lines 642-646), on the timer's timeout
slotPreviewTimeout ==
    /\ Idle
    /\ timerActive
    /\ advanced' = 0
    /\ IF duration = 0
       THEN /\ accumulated' = m_previewIterator
            /\ UNCHANGED <<m_previewIterator, todo>>
       ELSE /\ m_previewIterator' = m_previewIterator + tick
            /\ accumulated' = m_previewIterator'
            /\ todo' = <<Op("previewLoop")>>
    /\ calls' = <<>>
    /\ UNCHANGED <<docVars, matrixVars, comboVars, running, testChecked, testEnabled,
                   timerActive, m_map, exp, optionVars, colorVars, duration, tick,
                   fadeInSpeed, currentStepIndex>>
    /\ UNCHANGED <<dimmerVars, dialVars>>
    /\ offsetsKept

\* the step indices RGBMatrixStep::checkNextStep can leave the handler on
nextSteps(n) == 0 .. Max(n - 1, 0)

\* one pass of the loop of lines 647-656, or its exit to the redraw
previewLoop ==
    /\ At("previewLoop")
    /\ IF m_previewIterator >= period(duration, tick)
       THEN /\ \E index \in nextSteps(stepsCount(algorithm, docGroups, fixtureGroup)) :
                    /\ currentStepIndex' = index
                    /\ m_map' = previewMap(m_map, algorithm, docGroups,
                                           fixtureGroup, index)
            /\ m_previewIterator' = m_previewIterator - period(duration, tick)
            /\ advanced' = advanced + 1
            /\ UNCHANGED todo
       ELSE /\ todo' = Tail(todo)
            /\ UNCHANGED <<currentStepIndex, m_map, m_previewIterator, advanced>>
    /\ calls' = <<>>
    /\ UNCHANGED <<docVars, matrixVars, comboVars, running, testChecked, testEnabled,
                   timerActive, exp, optionVars, colorVars, duration, tick,
                   accumulated, fadeInSpeed>>
    /\ UNCHANGED <<dimmerVars, dialVars>>
    /\ offsetsKept

(***************************************************************************)
(* The speed dials                                                         *)
(***************************************************************************)
\* slotSpeedDialToggle(state), on the speed dial button's toggled; a dial it
\* deletes is destroyed once the slot has returned
slotSpeedDialToggle(state) ==
    /\ Idle
    /\ state # speedDialButton
    /\ speedDialButton' = state
    /\ IF state
       THEN /\ m_speedDials' \in updateSpeedDials(state, m_speedDials, duration,
                                                  fadeInSpeed)
            /\ UNCHANGED todo
       ELSE /\ m_speedDials' = NoSpeedDials
            /\ todo' = IF m_speedDials.open THEN <<Op("slotDialDestroyed")>> ELSE <<>>
    /\ calls' = <<>>
    /\ UNCHANGED <<docVars, matrixVars, comboVars, running, testChecked, testEnabled,
                   timerActive, m_map, exp, optionVars, colorVars, timeoutVars,
                   currentStepIndex, dimmerVars>>
    /\ offsetsKept

\* slotFunctionManagerActive(active)
slotFunctionManagerActive(active) ==
    /\ Idle
    /\ IF active
       THEN /\ m_speedDials' \in updateSpeedDials(speedDialButton, m_speedDials,
                                                  duration, fadeInSpeed)
            /\ UNCHANGED todo
       ELSE /\ m_speedDials' = NoSpeedDials
            /\ todo' = IF m_speedDials.open THEN <<Op("slotDialDestroyed")>> ELSE <<>>
    /\ calls' = <<>>
    /\ UNCHANGED <<docVars, matrixVars, comboVars, running, testChecked, testEnabled,
                   timerActive, m_map, exp, optionVars, colorVars, timeoutVars,
                   currentStepIndex, dimmerVars, speedDialButton>>
    /\ offsetsKept

\* the user closes the dial's window, which deletes it (WA_DeleteOnClose)
speedDialsClosed ==
    /\ Idle
    /\ m_speedDials.open
    /\ todo' = <<Op("slotDialDestroyed")>>
    /\ calls' = <<>>
    /\ UNCHANGED <<docVars, matrixVars, comboVars, running, testChecked, testEnabled,
                   timerActive, m_map, exp, optionVars, colorVars, timeoutVars,
                   currentStepIndex, dimmerVars, dialVars>>
    /\ offsetsKept

\* slotDialDestroyed: unchecking the button runs slotSpeedDialToggle(false)
slotDialDestroyed ==
    /\ At("slotDialDestroyed")
    /\ speedDialButton' = FALSE
    /\ m_speedDials' = IF speedDialButton THEN NoSpeedDials ELSE m_speedDials
    /\ todo' = Tail(todo)
    /\ calls' = <<>>
    /\ UNCHANGED <<docVars, matrixVars, comboVars, running, testChecked, testEnabled,
                   timerActive, m_map, exp, optionVars, colorVars, timeoutVars,
                   currentStepIndex, dimmerVars>>
    /\ offsetsKept

\* slotFadeInChanged(ms), on the dial's fadeInChanged
slotFadeInChanged(ms) ==
    /\ Idle
    /\ m_speedDials.open
    /\ speedAdd(ms, m_speedDials.duration) <= MaxDuration
    /\ fadeInSpeed' = ms
    /\ duration' = speedAdd(ms, m_speedDials.duration)
    /\ m_speedDials' = [m_speedDials EXCEPT !.fadeIn = ms]
    /\ calls' = <<>>
    /\ UNCHANGED <<docVars, matrixVars, comboVars, running, testChecked, testEnabled,
                   timerActive, m_map, todo, exp, optionVars, colorVars, tick,
                   m_previewIterator, accumulated, advanced, currentStepIndex,
                   dimmerVars, speedDialButton>>
    /\ offsetsKept

\* mutant: the hold becomes the duration
slotHoldChangedAsDuration(ms) ==
    /\ Idle
    /\ m_speedDials.open
    /\ speedAdd(fadeInSpeed, ms) <= MaxDuration
    /\ duration' = ms
    /\ m_speedDials' = [m_speedDials EXCEPT !.duration = ms]
    /\ calls' = <<>>
    /\ UNCHANGED <<docVars, matrixVars, comboVars, running, testChecked, testEnabled,
                   timerActive, m_map, todo, exp, optionVars, colorVars, tick,
                   m_previewIterator, accumulated, advanced, fadeInSpeed,
                   currentStepIndex, dimmerVars, speedDialButton>>
    /\ offsetsKept

\* slotHoldChanged(ms), on the dial's holdChanged
slotHoldChanged(ms) ==
    /\ Idle
    /\ m_speedDials.open
    /\ speedAdd(fadeInSpeed, ms) <= MaxDuration
    /\ duration' = speedAdd(fadeInSpeed, ms)
    /\ m_speedDials' = [m_speedDials EXCEPT !.duration = ms]
    /\ calls' = <<>>
    /\ UNCHANGED <<docVars, matrixVars, comboVars, running, testChecked, testEnabled,
                   timerActive, m_map, todo, exp, optionVars, colorVars, tick,
                   m_previewIterator, accumulated, advanced, fadeInSpeed,
                   currentStepIndex, dimmerVars, speedDialButton>>
    /\ offsetsKept

(***************************************************************************)
(* Dimmer control                                                          *)
(***************************************************************************)
\* the check box lies in the intensity group: it is on screen with the group
dimmerControlCbVisible == intensityGroup

\* mutant: the box stays enabled once unchecked
slotDimmerControlClickedStillEnabled ==
    /\ Idle
    /\ dimmerControlCbEnabled
    /\ dimmerControlCbVisible
    /\ dimmerControlCb' = ~dimmerControlCb
    /\ dimmerControl' = dimmerControlCb'
    /\ calls' = <<>>
    /\ UNCHANGED <<docVars, matrixVars, comboVars, running, testChecked, testEnabled,
                   timerActive, m_map, todo, exp, optionVars, colorVars, timeoutVars,
                   currentStepIndex, dimmerControlCbEnabled, intensityGroup,
                   dialVars>>
    /\ offsetsKept

\* slotDimmerControlClicked, on a click that toggled the check box
slotDimmerControlClicked ==
    /\ Idle
    /\ dimmerControlCbEnabled
    /\ dimmerControlCbVisible
    /\ dimmerControlCb' = ~dimmerControlCb
    /\ dimmerControl' = dimmerControlCb'
    /\ dimmerControlCbEnabled' = (IF dimmerControlCb' = FALSE THEN FALSE
                                  ELSE dimmerControlCbEnabled)
    /\ calls' = <<>>
    /\ UNCHANGED <<docVars, matrixVars, comboVars, running, testChecked, testEnabled,
                   timerActive, m_map, todo, exp, optionVars, colorVars, timeoutVars,
                   currentStepIndex, intensityGroup, dialVars>>
    /\ offsetsKept

(***************************************************************************)
(* Specifications.  Each takes the slots that bear on one part of the      *)
(* editor, from every state of the model's other parts that matters to it. *)
(***************************************************************************)
\* the algorithms of one step
OneStep(algos) == {a \in algos : a.steps <= 1}

\* Fixture groups, the combo and the preview timer
InitGroups ==
    /\ InitEditor({"Design", "Operate"}, SUBSET GroupIds, GroupIds \cup {InvalidId},
                  {NullAlgorithm, NewAlgorithm("Plain", 1)}, BasicLayouts)
    /\ InitColors({White}, {Unset}, {"NormalBlend"}, {"ControlModeRgb"})
    /\ InitSpeed({1}, {0}, {1})
    /\ InitDimmer({TRUE})
    /\ InitDials({FALSE})

NextGroups ==
    \/ slotTestClicked
    \/ slotRestartTest
    \/ \E mode \in {"Design", "Operate"} : slotModeChanged(mode)
    \/ \E index \in 0 .. (Len(comboItems) - 1) : slotFixtureGroupActivated(index)
    \/ \E id \in GroupIds : slotFixtureGroupAdded(id)
    \/ \E id \in GroupIds : slotFixtureGroupRemoved(id)
    \/ \E id \in GroupIds, layout \in BasicLayouts : slotFixtureGroupChanged(id, layout)
    \/ slotLoopClicked
    \/ slotPingPongClicked
    \/ slotSingleShotClicked
    \/ slotForwardClicked
    \/ slotBackwardClicked
    \/ updateExtraOptions
    \/ \E algo \in {NullAlgorithm, NewAlgorithm("Plain", 1)} : slotPatternActivated(algo)

SpecGroups == InitGroups /\ [][NextGroups]_vars

\* The algorithm mutex: the editor's writes against the playback side
InitMutex ==
    /\ InitEditor({"Design"}, {GroupIds}, {0}, OneStep(Algorithms), {RowLayout})
    /\ InitColors({White}, {Unset}, {"NormalBlend"}, {"ControlModeRgb"})
    /\ InitSpeed({1}, {0}, {1})
    /\ InitDimmer({TRUE})
    /\ InitDials({FALSE})

NextMutex ==
    \/ slotTestClicked
    \/ slotRestartTest
    \/ algorithmLocker
    \/ algorithmUnlocker
    \/ algorithmWrite
    \/ \E text \in Values : slotTextEdited(text)
    \/ \E font \in Values : slotFontButtonClicked(font)
    \/ \E style \in Values : slotAnimationActivated(style)
    \/ \E filename \in Values : slotImageEdited(filename)
    \/ \E path \in Values : slotImageButtonClicked(path)
    \/ \E style \in Values : slotImageAnimationActivated(style)
    \/ \E x \in Values, y \in Values : slotOffsetSpinChanged(x, y)
    \/ xOffsetSpinSetValue
    \/ yOffsetSpinSetValue
    \/ updateExtraOptions
    \/ \E algo \in OneStep(NewAlgorithms) : slotPatternActivated(algo)
    \/ PlaybackLock
    \/ PlaybackUnlock

SpecMutex == InitMutex /\ [][NextMutex]_vars

\* The export to a scene and a sequence, for every layout of the bound group
InitExport ==
    /\ InitEditor({"Design"}, {{}, {0}}, {0, InvalidId},
                  {NullAlgorithm} \cup {NewAlgorithm("Plain", n) : n \in 1 .. MaxSteps},
                  Layouts)
    /\ InitColors({White}, {Unset}, {"NormalBlend"}, {"ControlModeRgb"})
    /\ InitSpeed({1}, {0}, {1})
    /\ InitDimmer({TRUE})
    /\ InitDials({FALSE})

NextExport ==
    \/ slotTestClicked
    \/ slotRestartTest
    \/ updateExtraOptions
    \/ slotPatternActivated(NullAlgorithm)
    \/ slotSaveToSequenceClicked
    \/ addScene
    \/ newSequence
    \/ exportStep
    \/ addSequence
    \/ exportDone

SpecExport == InitExport /\ [][NextExport]_vars

\* The widget groups of the extra options, for every kind of algorithm
AllAlgorithms ==
    {NullAlgorithm, NewAlgorithm("Plain", 1), NewAlgorithm("Text", 1),
     NewAlgorithm("Image", 1), NewAlgorithm("Audio", 1)}
    \cup {NewScript(1, properties, colors) :
            properties \in 0 .. MaxProperties, colors \in 0 .. 2}

InitOptions ==
    /\ InitEditor({"Design"}, {{0}}, {0}, AllAlgorithms, {RowLayout})
    /\ InitColors({White}, {Unset}, {"NormalBlend", "MaskBlend"}, {"ControlModeRgb"})
    /\ InitSpeed({1}, {0}, {1})
    /\ InitDimmer({TRUE})
    /\ InitDials({FALSE})

NextOptions ==
    \/ slotTestClicked
    \/ slotRestartTest
    \/ \E algo \in AllAlgorithms : slotPatternActivated(algo)
    \/ updateExtraOptions
    \/ xOffsetSpinSetValue
    \/ yOffsetSpinSetValue
    \/ \E x \in Values, y \in Values : slotOffsetSpinChanged(x, y)
    \/ algorithmLocker
    \/ algorithmWrite
    \/ algorithmUnlocker
    \/ \E index \in BlendModes : slotBlendModeChanged(index)
    \/ updateColors

SpecOptions == InitOptions /\ [][NextOptions]_vars

\* The preview timer against changes of the duration.  The loop of a timeout
\* in progress is the only thing the UI thread runs until it exits.
InitPreview ==
    /\ InitEditor({"Design"}, {{0}}, {0},
                  {NewAlgorithm("Plain", n) : n \in 1 .. MaxSteps}, {RowLayout})
    /\ InitColors({White}, {Unset}, {"NormalBlend"}, {"ControlModeRgb"})
    /\ InitSpeed(0 .. MaxDuration, {0, 1}, 1 .. MaxTick)
    /\ InitDimmer({TRUE})
    /\ InitDials({TRUE})

NextPreview ==
    \/ slotPreviewTimeout
    \/ previewLoop
    \/ \E ms \in 0 .. MaxDuration : slotHoldChanged(ms)
    \/ slotForwardClicked
    \/ slotBackwardClicked
    \/ slotRestartTest

SpecPreview == InitPreview /\ [][NextPreview]_vars /\ WF_vars(previewLoop)

\* The test button against everything that starts or stops the matrix
InitTest ==
    /\ InitEditor({"Design", "Operate"}, {{}, {0}}, {0, InvalidId},
                  {NullAlgorithm, NewAlgorithm("Plain", 1)}, {RowLayout})
    /\ InitColors({White}, {Unset}, {"NormalBlend"}, {"ControlModeRgb"})
    /\ InitSpeed({1}, {0}, {1})
    /\ InitDimmer({TRUE})
    /\ InitDials({FALSE})

NextTest ==
    \/ slotTestClicked
    \/ slotRestartTest
    \/ \E mode \in {"Design", "Operate"} : slotModeChanged(mode)
    \/ stopTest
    \/ destructor
    \/ \E algo \in {NullAlgorithm, NewAlgorithm("Plain", 1)} : slotPatternActivated(algo)
    \/ updateExtraOptions
    \/ \E index \in ControlModes : slotColorModeChanged(index)
    \/ updateColors
    \/ slotPingPongClicked
    \/ slotBackwardClicked
    \/ \E index \in 0 .. (Len(comboItems) - 1) : slotFixtureGroupActivated(index)
    \/ \E id \in GroupIds : slotFixtureGroupRemoved(id)
    \/ slotSaveToSequenceClicked
    \/ addScene
    \/ newSequence
    \/ exportStep
    \/ addSequence
    \/ exportDone
    \/ PlaybackLock
    \/ PlaybackUnlock

SpecTest == InitTest /\ [][NextTest]_vars

\* The colours against the blend mode, the control mode and the algorithm
ColorAlgorithms ==
    {NullAlgorithm, NewAlgorithm("Image", 1), NewAlgorithm("Plain", 1),
     NewAlgorithm("Text", 1)}

InitColorSlots ==
    /\ InitEditor({"Design"}, {{0}}, {0}, ColorAlgorithms, {RowLayout})
    /\ InitColors(Palette, Palette \cup {Unset}, BlendModes, ControlModes)
    /\ InitSpeed({1}, {0}, {1})
    /\ InitDimmer({TRUE})
    /\ InitDials({FALSE})

NextColors ==
    \/ \E index \in BlendModes : slotBlendModeChanged(index)
    \/ \E index \in ControlModes : slotColorModeChanged(index)
    \/ \E col \in Palette \cup {Unset} : slotStartColorButtonClicked(col)
    \/ \E col \in Palette \cup {Unset} : slotEndColorButtonClicked(col)
    \/ slotResetEndColorButtonClicked
    \/ updateColors
    \/ updateExtraOptions
    \/ xOffsetSpinSetValue
    \/ yOffsetSpinSetValue
    \/ \E algo \in ColorAlgorithms : slotPatternActivated(algo)
    \/ slotRestartTest

SpecColors == InitColorSlots /\ [][NextColors]_vars

\* The dimmer control and the speeds, with the export that reads the speeds
Speeds == 0 .. MaxDuration \cup {Infinite}

InitSettings ==
    /\ InitEditor({"Design"}, {{0}}, {0}, {NewAlgorithm("Plain", 1)}, {RowLayout})
    /\ InitColors({White}, {Unset}, {"NormalBlend"}, {"ControlModeRgb"})
    /\ InitSpeed(Speeds, {0, 1}, {1})
    /\ InitDimmer(BOOLEAN)
    /\ InitDials(BOOLEAN)

NextSettings ==
    \/ slotDimmerControlClicked
    \/ \E state \in BOOLEAN : slotSpeedDialToggle(state)
    \/ \E active \in BOOLEAN : slotFunctionManagerActive(active)
    \/ speedDialsClosed
    \/ slotDialDestroyed
    \/ \E ms \in Speeds : slotFadeInChanged(ms)
    \/ \E ms \in Speeds : slotHoldChanged(ms)
    \/ slotSaveToSequenceClicked
    \/ addScene
    \/ newSequence
    \/ exportStep
    \/ addSequence
    \/ exportDone

SpecSettings == InitSettings /\ [][NextSettings]_vars

(***************************************************************************)
(* Properties of the export (checked under SpecExport)                     *)
(***************************************************************************)
\* the functions the Doc was given since the slot in progress was entered
AddedFunctions == SubSeq(docFunctions, exp.functionsAtEntry + 1, Len(docFunctions))

\* C1: when the slot has run with a bound group and an algorithm of n >= 1
\* steps, the sequence it added to the Doc holds n steps for Loop and
\* SingleShot and 2n-1 steps for PingPong, and the Doc was given exactly one
\* Scene and one Sequence.
C1_StepCount ==
    exp.phase = "sequenceAdded" =>
        LET n == stepsCount(algorithm, docGroups, fixtureGroup)
        IN n >= 1 =>
            /\ Len(AddedFunctions) = 2
            /\ AddedFunctions[1].type = "Scene"
            /\ AddedFunctions[2].type = "Sequence"
            /\ Len(AddedFunctions[2].steps) =
                    (IF runOrder \in {"Loop", "SingleShot"} THEN n ELSE 2 * n - 1)

C1_Witness ==
    /\ exp.phase = "sequenceAdded"
    /\ runOrder = "PingPong"
    /\ stepsCount(algorithm, docGroups, fixtureGroup) = 3
    /\ Len(docFunctions[Len(docFunctions)].steps) = 5

\* C2: every step index the export passes to previewMap lies in
\* 0 .. stepsCount()-1, for every run order and direction.
C2_IndexInRange ==
    \A k \in 1 .. Len(exp.rendered) :
        /\ 0 <= exp.rendered[k]
        /\ exp.rendered[k] <= stepsCount(algorithm, docGroups, fixtureGroup) - 1

\* the ping-pong walk over n steps: 0, 1, ..., n-1, n-2, ..., 0
PingPongWalk(n) == [k \in 1 .. (2 * n - 1) |-> IF k <= n THEN k - 1 ELSE 2 * n - 1 - k]

\* C3: with run order PingPong and direction Forward the export renders the
\* steps 0, 1, ..., n-1, n-2, ..., 0: the walk turns once, at the last step.
C3_PingPongOrder ==
    (exp.phase = "sequenceAdded" /\ runOrder = "PingPong" /\ direction = "Forward")
        => exp.rendered = PingPongWalk(stepsCount(algorithm, docGroups, fixtureGroup))

\* C4: with no group bound, or an id that resolves to no group, or no
\* algorithm, the slot returns without adding a function to the Doc and
\* leaves the test button, the matrix's running state and the preview timer
\* as they were.
C4_EarlyReturn ==
    [][(/\ Idle
        /\ \/ fixtureGroup = InvalidId
           \/ fixtureGroup \notin docGroups
           \/ algorithm.type = "None"
        /\ exp' # exp)
       => /\ exp'.phase = "returned"
          /\ todo' = <<>>
          /\ UNCHANGED <<docFunctions, testChecked, testEnabled, running,
                         timerActive>>]_vars

C4_Witness ==
    /\ exp.phase = "returned"
    /\ algorithm.type = "None"
    /\ fixtureGroup \in docGroups
    /\ testChecked
    /\ timerActive

\* C5: the Scene is in the Doc before the Sequence is bound to it and before
\* any step is built; the Sequence is added to the Doc only after all its
\* steps were appended; the Sequence's bound scene id and the fid of every
\* step are the id of that Scene.
C5_SceneFirst ==
    /\ exp.phase \in {"scene", "sceneAdded"} =>
            /\ exp.sequence.boundSceneID = InvalidId
            /\ exp.sequence.steps = <<>>
    /\ exp.phase = "scene" => AddedFunctions = <<>>
    /\ exp.phase \in {"sceneAdded", "sequence", "stepsDone", "sequenceAdded"} =>
            /\ Len(AddedFunctions) >= 1
            /\ AddedFunctions[1].type = "Scene"
            /\ AddedFunctions[1].id = exp.sceneId
            /\ exp.sceneId # InvalidId
    /\ exp.phase \in {"sequence", "stepsDone", "sequenceAdded"} =>
            /\ exp.sequence.boundSceneID = exp.sceneId
            /\ \A k \in 1 .. Len(exp.sequence.steps) :
                    exp.sequence.steps[k].fid = exp.sceneId
    /\ exp.phase \in {"sceneAdded", "sequence", "stepsDone"} => Len(AddedFunctions) = 1
    /\ exp.phase = "sequenceAdded" =>
            /\ Len(AddedFunctions) = 2
            /\ exp.i = exp.totalSteps
            /\ AddedFunctions[2].type = "Sequence"
            /\ AddedFunctions[2].steps = exp.sequence.steps
            /\ Len(AddedFunctions[2].steps) = exp.totalSteps
            /\ AddedFunctions[2].boundSceneID = AddedFunctions[1].id

C5_Witness ==
    /\ exp.phase = "sequenceAdded"
    /\ Len(exp.sequence.steps) >= 2
    /\ exp.sequence.steps[2].fid = docFunctions[Len(docFunctions) - 1].id

Ascending(values) ==
    \A k \in 1 .. (Len(values) - 1) : ~SceneValueLess(values[k + 1], values[k])

\* C6: every step of the exported sequence holds its values in ascending
\* SceneValue order, wherever the heads are placed in the grid.
C6_StepsSorted ==
    /\ \A k \in 1 .. Len(exp.sequence.steps) : Ascending(exp.sequence.steps[k].values)
    /\ \A f \in 1 .. Len(docFunctions) :
            \A k \in 1 .. Len(docFunctions[f].steps) :
                Ascending(docFunctions[f].steps[k].values)

\* a step was exported whose values were not ascending in grid order
C6_Witness ==
    /\ exp.phase = "sequenceAdded"
    /\ ~Ascending(stepValuesFrom(0, m_map, headsMap[fixtureGroup]))
    /\ Len(docFunctions[Len(docFunctions)].steps[1].values) >= 4

(***************************************************************************)
(* Properties of the algorithm mutex (checked under SpecMutex)             *)
(***************************************************************************)
\* C7: every write the editor makes to the installed Text or Image algorithm
\* (setText, setFont, setAnimationStyle, setFilename, setXOffset, setYOffset)
\* happens while the editor holds the matrix's algorithm mutex, hence never
\* while the playback side holds it.
C7_WritesUnderMutex == At("write") => mutexHolder = "editor"

\* the editor is about to write while the matrix is running
C7_Witness ==
    /\ At("write")
    /\ Head(todo).field = "yOffset"
    /\ running
    /\ mutexHolder = "editor"

\* C8: the editor does not hold the algorithm mutex when it calls
\* slotRestartTest, nor when a slot starts or stops the matrix: the locker's
\* scope has ended before the restart.
C8_RestartOutsideMutex == (At("slotRestartTest") \/ Idle) => mutexHolder # "editor"

\* the restart that follows a write waits for the playback side
C8_Witness ==
    /\ At("slotRestartTest")
    /\ testChecked
    /\ running
    /\ algorithm.text = 1
    /\ mutexHolder = "playback"

(***************************************************************************)
(* Properties of the fixture group binding (checked under SpecGroups)      *)
(***************************************************************************)
\* the combo's "None" item is picked
NoneActivated ==
    \E index \in 0 .. (Len(comboItems) - 1) :
        itemData(comboItems, index) = NoData /\ slotFixtureGroupActivated(index)

\* the Doc removes the group the matrix is bound to
BoundGroupRemoved == slotFixtureGroupRemoved(fixtureGroup)

\* C9: while the preview timer is active the matrix is bound to a group that
\* exists in the Doc; picking "None", or the removal of the bound group, sets
\* the matrix's group to the invalid id and stops the timer, and the timer then
\* stays stopped, whatever restarts the test, as long as the group is invalid.
C9_TimerNeedsGroup ==
    /\ [](timerActive => groupExists(docGroups, fixtureGroup))
    /\ [][(NoneActivated \/ BoundGroupRemoved)
            => (fixtureGroup' = InvalidId /\ ~timerActive')]_vars
    /\ [][(fixtureGroup = InvalidId /\ fixtureGroup' = InvalidId) => ~timerActive']_vars

\* the group was previewed, then unbound, and the test was restarted since
C9_Witness ==
    /\ Idle
    /\ fixtureGroup = InvalidId
    /\ m_map # <<>>
    /\ docGroups # {}
    /\ testChecked
    /\ runOrder = "PingPong"
    /\ ~timerActive

\* the matrix is bound to an id that resolves to no group of the Doc
Stale == fixtureGroup # InvalidId /\ fixtureGroup \notin docGroups

\* the combo's current item is the matrix's group
Mirror ==
    /\ comboIndex \in 0 .. (Len(comboItems) - 1)
    /\ (comboIndex = 0) <=> (fixtureGroup = InvalidId)
    /\ (itemData(comboItems, comboIndex) = NoData) <=> (fixtureGroup = InvalidId)
    /\ (itemData(comboItems, comboIndex) # NoData)
            => itemData(comboItems, comboIndex) = fixtureGroup

\* C10: opened on a matrix bound to no group or to a group of the Doc, the
\* editor keeps the combo on the matrix's group through every activation and
\* every fixtureGroupAdded / Removed / Changed of the Doc: the current item's
\* data is the matrix's group id, and "None" is current exactly when that id
\* is the invalid id.
C10_ComboMirrorsModel ==
    /\ [](~Stale => Mirror)
    /\ [][~Stale => ~Stale']_vars

\* the bound group is the combo's second and last item, its restart pending
C10_Witness ==
    /\ At("slotRestartTest")
    /\ docGroups = {1}
    /\ fixtureGroup = 1
    /\ comboItems = <<NoData, 1>>
    /\ comboIndex = 1

(***************************************************************************)
(* Properties of the extra options (checked under SpecOptions)             *)
(***************************************************************************)
\* C11: once updateExtraOptions has run (after init and after every pattern
\* activation) the text group is shown iff the algorithm is Text, the image
\* group iff it is Image, the offset group iff it is Text or Image, all three
\* are hidden for Plain, Script, Audio and no algorithm, and the script
\* properties group is shown only for a Script with at least one property.
C11_GroupsFollowType ==
    ~At("updateExtraOptions") =>
        /\ textGroup <=> (algorithm.type = "Text")
        /\ imageGroup <=> (algorithm.type = "Image")
        /\ offsetGroup <=> (algorithm.type \in {"Text", "Image"})
        /\ algorithm.type \in {"Plain", "Script", "Audio", "None"}
                => (~textGroup /\ ~imageGroup /\ ~offsetGroup)
        /\ propertiesGroup => (algorithm.type = "Script" /\ algorithm.properties >= 1)

\* a Plain pattern was activated over an Image one, and the options refreshed
C11_Witness ==
    /\ At("slotRestartTest")
    /\ algorithm.type = "Plain"
    /\ xOffsetSpin = 1
    /\ ~offsetGroup
    /\ ~imageGroup

(***************************************************************************)
(* Properties of the preview timer (checked under SpecPreview)             *)
(***************************************************************************)
\* C12: every slotPreviewTimeout call returns; with a duration of 0 it
\* leaves m_previewIterator and the preview step alone; otherwise it adds one
\* tick to m_previewIterator, advances the preview once per whole period
\* P = MAX(duration, tick) held by the raised value, and returns with
\* 0 <= m_previewIterator < P, also when the duration changed since the last
\* timeout.
C12_TimeoutAdvances ==
    /\ [][(slotPreviewTimeout /\ duration = 0)
            => UNCHANGED <<m_previewIterator, currentStepIndex, m_map, todo>>]_vars
    /\ [][(Idle /\ At("previewLoop")')
            => (duration > 0 /\ m_previewIterator' = m_previewIterator + tick)]_vars
    /\ [][(At("previewLoop") /\ ~Idle')
            => (advanced' = advanced + 1 /\ UNCHANGED <<duration, tick, accumulated>>)]_vars
    /\ [][(At("previewLoop") /\ Idle')
            => LET P == IF duration >= tick THEN duration ELSE tick
               IN /\ advanced' = accumulated \div P
                  /\ m_previewIterator' = accumulated % P
                  /\ 0 <= m_previewIterator'
                  /\ m_previewIterator' < P]_vars
    /\ [](At("previewLoop") => <>Idle)

\* the duration was shortened between two timeouts: two steps in one timeout
C12_Witness ==
    /\ Idle
    /\ duration = 2
    /\ tick = 1
    /\ accumulated = 5
    /\ advanced = 2
    /\ m_previewIterator = 1

(***************************************************************************)
(* Properties of the test button (checked under SpecTest)                  *)
(***************************************************************************)
\* C13: while the Doc is in Operate mode the test button is unchecked and
\* disabled and no step of the editor calls start on the matrix; entering
\* Operate with the test running calls stopAndWait.
C13_NoStartInOperate ==
    /\ [](docMode = "Operate" => (~testChecked /\ ~testEnabled /\ ~running))
    /\ [][docMode' = "Operate"
            => \A k \in 1 .. Len(calls') : calls'[k] # "start"]_vars
    /\ [][(docMode # "Operate" /\ docMode' = "Operate" /\ testChecked)
            => calls' = <<"stopAndWait">>]_vars

\* in Operate, after an export, a restart of the preview is pending
C13_Witness ==
    /\ docMode = "Operate"
    /\ At("slotRestartTest")
    /\ algorithm.type = "Plain"
    /\ Len(docFunctions) = 3
    /\ timerActive

\* C14: slotRestartTest keeps the test state: with the button checked on
\* entry it calls stopAndWait, then start, and the button is checked on
\* return; with the button unchecked it calls neither.  The preview timer is
\* active on return iff the bound group exists and the preview map is not
\* empty.
C14_RestartKeepsTest ==
    [][(At("slotRestartTest") /\ todo' = Tail(todo))
        => /\ testChecked
                => (calls' = <<"stopAndWait", "start">> /\ testChecked' /\ running')
           /\ ~testChecked
                => (calls' = <<>> /\ ~testChecked' /\ running' = running)
           /\ timerActive' <=> (groupExists(docGroups, fixtureGroup) /\ m_map' # <<>>)]_vars

\* a running test was restarted by a change of direction
C14_Witness ==
    /\ Idle
    /\ calls = <<"stopAndWait", "start">>
    /\ direction = "Backward"
    /\ testChecked
    /\ running
    /\ timerActive

\* C15: the editor leaves no start without its stopAndWait: whenever the
\* test button is unchecked the matrix is not running on the editor's behalf,
\* and it is not after stopTest(), after the change to Operate, and after the
\* destructor.
C15_StartsArePaired ==
    /\ [](~testChecked => ~running)
    /\ [](docMode = "Operate" => ~running)
    /\ [](At("destroyed") => ~running)
    /\ [][stopTest => (~running' /\ ~testChecked')]_vars

\* the editor was destroyed while testing
C15_Witness ==
    /\ At("destroyed")
    /\ testChecked
    /\ calls = <<"stopAndWait">>
    /\ ~running

(***************************************************************************)
(* Further properties of the export (checked under SpecExport)             *)
(***************************************************************************)
\* the slot is between its entry and its last call
Exporting ==
    exp.phase \in {"scene", "sceneAdded", "sequence", "stepsDone", "sequenceAdded"}

\* C16: an export that goes through restores the run state it found.  If the
\* test was running on entry the matrix is stopped during the export and
\* running, with the button checked, on return.  If it was not, the preview
\* timer is stopped during the export, and on return it is active iff
\* createPreviewItems succeeded, the preview handler standing on the first
\* step of the direction.
C16_ExportRestoresRun ==
    /\ [][(Idle /\ Exporting') => (exp'.testRunning = (testChecked /\ running))]_vars
    /\ [](Exporting => IF exp.testRunning THEN ~running /\ ~testChecked
                                           ELSE ~timerActive)
    /\ [][(At("exportDone") /\ todo' = Tail(todo))
            => IF exp.testRunning
               THEN testChecked' /\ running' /\ calls' = <<"start">>
               ELSE /\ timerActive' <=> (groupExists(docGroups, fixtureGroup)
                                            /\ m_map' # <<>>)
                    /\ currentStepIndex' =
                        (IF direction = "Backward"
                         THEN stepsCount(algorithm, docGroups, fixtureGroup) - 1
                         ELSE 0)
                    /\ UNCHANGED <<testChecked, running>>
                    /\ calls' = <<>>]_vars

\* an export made while testing has returned
C16_Witness ==
    /\ exp.phase = "done"
    /\ Len(docFunctions) = 3
    /\ testChecked
    /\ running
    /\ calls = <<"start">>

\* the channels of a set of scene values
Channels(values) == {<<v.fxi, v.channel>> : v \in values}
ValuesOf(seq) == {seq[k] : k \in 1 .. Len(seq)}

\* the fixtures of the Doc that have a head in the layout
PatchedFixtures(layout) ==
    {layout[p].fxi : p \in {q \in Points : layout[q] # InvalidHead}} \cap DocFixtures

\* C17: every channel (fixture id, channel number) of every exported step
\* is in the Scene the Sequence is bound to, with value 0; grid positions with
\* no head, or with a head whose fixture the Doc does not hold, give no value
\* to the scene or to a step.
C17_StepChannelsInScene ==
    /\ Exporting =>
        /\ \A v \in exp.scene : v.value = 0
        /\ \A k \in 1 .. Len(exp.sequence.steps) :
                Channels(ValuesOf(exp.sequence.steps[k].values)) \subseteq Channels(exp.scene)
        /\ \A v \in exp.scene : v.fxi \in PatchedFixtures(headsMap[fixtureGroup])
        /\ \A k \in 1 .. Len(exp.sequence.steps) :
                \A v \in ValuesOf(exp.sequence.steps[k].values) :
                    v.fxi \in PatchedFixtures(headsMap[fixtureGroup])
    /\ \A f \in 1 .. Len(docFunctions) :
            docFunctions[f].type = "Sequence" =>
                LET scene == docFunctions[docFunctions[f].boundSceneID + 1]
                IN /\ scene.type = "Scene"
                   /\ \A v \in scene.values : v.value = 0
                   /\ \A k \in 1 .. Len(docFunctions[f].steps) :
                        Channels(ValuesOf(docFunctions[f].steps[k].values))
                            \subseteq Channels(scene.values)

\* a group with a head behind a master dimmer and a head of a fixture the Doc
\* does not hold was exported
C17_Witness ==
    /\ exp.phase = "sequenceAdded"
    /\ \E p \in Points : headsMap[fixtureGroup][p] = GroupHead(3, 0)
    /\ \E p \in Points : headsMap[fixtureGroup][p] = GroupHead(1, 0)
    /\ Channels(docFunctions[Len(docFunctions) - 1].values)
            = {<<1, 0>>, <<1, 1>>, <<1, 2>>, <<1, 3>>}
    /\ Len(docFunctions[Len(docFunctions)].steps[1].values) = 4

(***************************************************************************)
(* Properties of the colours (checked under SpecColors)                    *)
(***************************************************************************)
\* the slot named caller has made its calls up to its slotRestartTest
Returning(caller) == At("slotRestartTest") /\ Head(todo).field = caller

\* C18: after slotResetEndColorButtonClicked the matrix's end colour is unset
\* (an invalid QColor), in every control mode and for every algorithm, and an
\* unset end colour stays unset through every later change of the colour mode.
C18_ResetUnsetsEndColor ==
    /\ [](Returning("slotResetEndColorButtonClicked") => ~m_endColor.valid)
    /\ [][(/\ At("updateColors")
           /\ Head(todo).field = "slotColorModeChanged"
           /\ ~m_endColor.valid)
            => ~m_endColor'.valid]_vars

\* C19: with an algorithm that accepts a colour, selecting MaskBlend sets the
\* start colour to white, unsets the end colour and disables the start colour
\* button; and while the blend mode is MaskBlend a start or end colour pick
\* leaves the start colour white and the end colour unset.
C19_MaskKeepsWhite ==
    /\ (/\ Returning("slotBlendModeChanged")
        /\ blendMode = "MaskBlend")
            => /\ ~startColorButtonEnabled
               /\ algorithm.acceptColors >= 1
                    => (m_startColor = White /\ m_endColor = Unset)
    /\ (/\ \/ Returning("slotStartColorButtonClicked")
           \/ Returning("slotEndColorButtonClicked")
        /\ blendMode = "MaskBlend"
        /\ algorithm.acceptColors >= 1)
            => (m_startColor = White /\ m_endColor = Unset)

\* a start colour was picked while the matrix, opened with MaskBlend, kept it
C19_Witness ==
    /\ Returning("slotStartColorButtonClicked")
    /\ blendMode = "MaskBlend"
    /\ algorithm.acceptColors = 2
    /\ controlMode = "ControlModeDimmer"
    /\ m_startColor = White
    /\ m_endColor = Unset

\* red = green = blue
IsGray(col) == col.r = col.g /\ col.g = col.b

\* updateColors takes its grey branch
GrayApplies ==
    /\ blendMode # "MaskBlend"
    /\ algorithm.acceptColors >= 1
    /\ controlMode # "ControlModeRgb"

\* C20: with a blend mode other than MaskBlend, an algorithm that accepts a
\* colour and a control mode other than RGB, updateColors leaves the start
\* colour grey, each component the qGray of the colour before, and a second
\* updateColors changes nothing of the start colour.
C20_GrayIsIdempotent ==
    /\ [][(At("updateColors") /\ todo' = Tail(todo) /\ GrayApplies)
            => /\ m_startColor'.valid
               /\ m_startColor'.r = qGray(m_startColor)
               /\ m_startColor'.g = qGray(m_startColor)
               /\ m_startColor'.b = qGray(m_startColor)]_vars
    /\ []((At("slotRestartTest") /\ Head(todo).field # "" /\ GrayApplies)
            => /\ IsGray(m_startColor)
               /\ updateColorsOf(algorithm, blendMode, controlMode,
                                 m_startColor, m_endColor).start = m_startColor)

\* a start colour that is not grey was picked in a single colour mode
C20_Witness ==
    /\ Returning("slotStartColorButtonClicked")
    /\ blendMode = "AdditiveBlend"
    /\ controlMode = "ControlModeDimmer"
    /\ algorithm.acceptColors = 1
    /\ m_startColor = QColor(87, 87, 87)

(***************************************************************************)
(* Properties of the dimmer control and the speeds (checked under          *)
(* SpecSettings)                                                           *)
(***************************************************************************)
\* C21: dimmer control is one-way.  A matrix without dimmer control has its
\* check box disabled or its intensity group hidden, and once the matrix's
\* dimmerControl is false no step of the editor sets it to true again.
C21_DimmerStaysOff ==
    /\ [](~dimmerControl => (~dimmerControlCbEnabled \/ ~intensityGroup))
    /\ [][~dimmerControl => ~dimmerControl']_vars

\* the user unchecked the box of a matrix that had dimmer control: the box
\* is on screen, unchecked and disabled
C21_Witness ==
    /\ ~dimmerControl
    /\ intensityGroup
    /\ ~dimmerControlCb
    /\ ~dimmerControlCbEnabled

\* the step changes the matrix's fade-in or its duration
SpeedChanged == duration' # duration \/ fadeInSpeed' # fadeInSpeed

\* the step of the export in progress that adds a step to the sequence
StepExported ==
    /\ At("exportStep")
    /\ Len(exp'.sequence.steps) = Len(exp.sequence.steps) + 1

\* the step the export in progress added last, after the step
LastStep == exp'.sequence.steps[Len(exp'.sequence.steps)]

Refreshed ==
    /\ offsetsBefore.open
    /\ todo # offsetsBefore.rest
    /\ todo' = offsetsBefore.rest

\* C23: updateExtraOptions, run for a Text or an Image algorithm, only moves
\* the offsets from the algorithm to the spin boxes: when the call returns
\* the algorithm's xOffset and yOffset are those it had when the call
\* started, and the spin boxes show them.
C23_RefreshKeepsOffsets ==
    [][Refreshed
        => /\ algorithm'.xOffset = offsetsBefore.xOffset
           /\ algorithm'.yOffset = offsetsBefore.yOffset
           /\ xOffsetSpin' = offsetsBefore.xOffset
           /\ yOffsetSpin' = offsetsBefore.yOffset]_vars

====
